---------------------------- MODULE Spec2Model ----------------------------
(***************************************************************************)
(* A model of the grad control plane (STRRL/gra):                          *)
(*   - the streaming bridge of Server.ExecuteCommandStream / ExecuteCommand *)
(*     (gRPC handler, producing goroutine, runner service, the gateway's   *)
(*     exec with its two reader goroutines, the executed command);         *)
(*   - the cluster's pod set, the runner service's Create/Delete/Get, the  *)
(*     activity tracker and the reaper (CleanupService).                   *)
(* A runner identifier "runner-N" is the natural N; 0 is the empty string.  *)
(* A byte is a natural; a line and a chunk are sequences of bytes.         *)
(***************************************************************************)
EXTENDS Integers, Sequences, FiniteSets, TLC

\* ------------------------------------------------------------- bounds
\* Lines the executed command may write before it exits.
MaxWrites == 2
\* Capacity of stdoutCh / stderrCh. The source allocates 100; the model
\* scales it down so that a full channel (a blocked reader) is reachable.
ChanCap == 1
\* Runner identifiers runner-1 .. runner-MaxRunners.
MaxRunners == 1
\* The streaming timer runs over 0 .. MaxElapsed (seconds past the default).
MaxElapsed == 31
\* Pods in one listing, and the largest runner number among them.
MaxPods == 2
MaxN == 12
\* CreateRunner calls in flight together.
MaxCallers == 3
\* Conditions in one pod status.
MaxConditions == 2
\* DeleteRunner calls in flight together.
MaxDeleters == 2
\* Wrappers around one error.
MaxWrap == 2
MaxNow == 4
MaxGoroutines == 3

\* ------------------------------------------------- program constants
\* '\n', appended to every scanned line.
NL == 10
\* req.Timeout = 30 when the request carries zero.
DefaultTimeout == 30
\* cs.inactiveTimeout, in minutes.
InactiveTimeout == 5

EmptyId == 0
\* Largest int32, the type of ListOptions.Limit and Offset and of total.
MaxInt32 == 2147483647
\* limit = 50 when the request gives none.
DefaultLimit == 50
RunnerIds == 1..MaxRunners
Callers == 1..MaxCallers
Deleters == 1..MaxDeleters
Fds == {"stdout", "stderr"}

VARIABLES
    \* ---- the cluster and the request
    pods,          \* [RunnerIds -> pod snapshot]
    \* ---- ActivityTracker and CleanupService
    lastActiveTimes, \* tracked identifier -> minutes since the entry's instant
    cpc,           \* "idle" | "select" | "loop" | "delete" | "stopping" | "returned"
    cInactive,     \* identifiers of this cycle's inactive set not yet processed
    cCur,          \* identifier being processed
    cStatus,       \* what GetRunner gave for it
    exercised,     \* [RunnerIds -> BOOLEAN]: the pod exists and was executed on
    \* ---- CleanupService.Start / Stop
    lifecycle,     \* [stopCh, startCtxDone, tickPending]
    \* ---- the operation a specification looks at on its own, a record of
    \* ---- the fields named below; <<>> in the other specifications
    unit,
    req,           \* the ExecuteCommandRequest of the streaming call
    \* ---- Server.ExecuteCommandStream (main select loop)
    hpc,           \* "start" | "select" | "wait" | "done"
    chNil,         \* [Fds -> BOOLEAN]: the handler's stdoutCh/stderrCh set to nil
    frames,        \* frames accepted by stream.Send, in order
    hret,          \* status returned by the handler, "none" while running
    cancelled,     \* the client or the transport cancelled the stream
    \* ---- the producing goroutine and the service call
    ppc,           \* "idle" | "service" | "start" | "wait" | "result" | "closeErr" | "closeExit" | "done"
    svcRet,        \* [code, err] returned by runnerService.ExecuteCommandStream
    fetched,       \* runner status the service projected from the fetched pod
    execInvoked,   \* k8sClient.ExecuteCommandStream was called
    exitCh, exitClosed, errCh, errClosed,
    \* ---- the gateway: channels, readers, the command
    ch,            \* [Fds -> Seq(chunk)]
    chClosed,      \* [Fds -> BOOLEAN]
    rpc,           \* [Fds -> "none" | "scan" | "send" | "done"]
    rline,         \* [Fds -> lineCopy while the reader is in its select]
    produced,      \* [Fds -> Seq(chunk)]: chunks a reader put on its channel
    cmdState,      \* "none" | "running" | "exited"
    cmdExit,       \* exit code of the command
    budget,        \* lines the command may still write
    pipe,          \* [Fds -> Seq(line)]: written, not yet scanned
    pipeClosed,    \* cmd.Wait closed the read ends
    written,       \* [Fds -> Seq(line)]: everything the command wrote
    elapsed        \* seconds since the handler started the execution

reaperVars == <<lastActiveTimes, cpc, cInactive, cCur, cStatus, exercised>>
\* CleanupService.Start / Stop
stopCh == lifecycle.stopCh              \* "open" | "closed"
startCtxDone == lifecycle.startCtxDone  \* the context passed to Start is cancelled
tickPending == lifecycle.tickPending    \* ticker.C holds a tick
lifecycleVars == <<lifecycle>>
\* Everything outside one streaming call.
\* runnerService.generateRunnerID on one listing
podList == unit.podList            \* Seq(pod): the items ListRunnerPods returned
newID == unit.newID                \* the identifier returned, None before the call
\* concurrent CreateRunner / DeleteRunner calls on one namespace
namespace == unit.namespace        \* set of pods: [uid, name, runnerID, finalizer, deleting]
callPc == unit.callPc              \* [Callers -> "idle" | "generated" | "created" | "returned"]
callID == unit.callID              \* [Callers -> the identifier the call generated]
callRet == unit.callRet            \* [Callers -> [err, id, clusterErr]]: what the call returned
\* one pod snapshot and the runner states projected from it
snapshot == unit.snapshot          \* [phase, conditions, statusAnnotation]
mapped == unit.mapped              \* result of MapPodStatusToRunnerStatus, "none" before
runnerStatus == unit.runnerStatus  \* [Projections -> Status of the runner the operation built]
\* The functions checked on their own inputs.
\* concurrent DeleteRunner calls on one runner, and a GetRunner observer
delPc == unit.delPc                \* [Deleters -> "idle" | "fetched" | "unfinalized" | "returned"]
delRet == unit.delRet              \* [Deleters -> the error the call returned]
observed == unit.observed          \* [status, deleted]: the last GetRunner result
\* Server.mapServiceError on one error
svcErr == unit.svcErr              \* the error chain given to mapServiceError
grpcCode == unit.grpcCode          \* the status code returned, "none" before the call
\* runnerService.ListRunners: pagination of one filtered list
pageIn == unit.pageIn              \* [n, offset, limit]: runners after the filter, opts
pageOut == unit.pageOut            \* [total, lo, hi, panic, returned]
tracker == unit.tracker            \* ActivityTracker.lastActiveTimes, as instants
now == unit.now                    \* time.Now()
touchedAt == unit.touchedAt        \* per identifier: the instant of its last touch since its last removal, or ZeroTime
answer == unit.answer              \* [op, arg, ids, time]: the last query and what it returned
mu == unit.mu                      \* ActivityTracker.mu: [writer, readers]
calls == unit.calls                \* per goroutine: its one call on the tracker
cluster == unit.cluster            \* per identifier: "absent", "creating" or "running"
lastOp == unit.lastOp              \* [op, id, started]: the last service call
auto == unit.auto                  \* one ExecuteCommand call and the runner it provisions
rtPc == unit.rtPc                  \* "built", "rendered", "projected"
rtRunner == unit.rtRunner          \* the runner value CreateRunner built
rtPod == unit.rtPod                \* the pod ToPodSpec rendered from it
rtProjected == unit.rtProjected    \* the runner PodToRunner read back
sideVars == <<unit>>
clusterVars == <<pods, reaperVars, lifecycleVars, sideVars>>
handlerVars == <<hpc, chNil, frames, hret, cancelled>>
producerVars == <<ppc, svcRet, fetched, execInvoked, exitCh, exitClosed, errCh, errClosed>>
gatewayVars == <<ch, chClosed, rpc, rline, produced, cmdState, cmdExit, budget, pipe, pipeClosed, written>>
streamVars == <<req, handlerVars, producerVars, gatewayVars, elapsed>>
\* Everything outside the runner service, the tracker and the reaper's cycle.
outerVars == <<streamVars, lifecycleVars, sideVars>>
vars == <<clusterVars, streamVars>>

\* ------------------------------------------------------------ pods
NoPod == [exists |-> FALSE, phase |-> "Pending", ready |-> FALSE,
          finalizer |-> FALSE, deleting |-> FALSE]

NewPod == [exists |-> TRUE, phase |-> "Pending", ready |-> FALSE,
           finalizer |-> TRUE, deleting |-> FALSE]

IsReadyTrue_AnyType(condition) == condition.status = "True"

\* condition.Type == corev1.PodReady && condition.Status == corev1.ConditionTrue
IsReadyTrue(condition) == condition.type = "Ready" /\ condition.status = "True"

\* pod.Status.Conditions: the list itself where the snapshot holds one, and
\* for the pods of the cluster, which record readiness as a flag, the Ready
\* condition that flag stands for.
Conditions(pod) ==
    IF "conditions" \in DOMAIN pod THEN pod.conditions
    ELSE IF pod.ready THEN <<[type |-> "Ready", status |-> "True"]>>
    ELSE <<>>

\* MapPodStatusToRunnerStatus: pod phase and conditions -> runner status.
MapPodStatusToRunnerStatus(pod) ==
    CASE pod.phase = "Pending" -> "creating"
      [] pod.phase = "Running" ->
            IF \E i \in 1..Len(Conditions(pod)) : IsReadyTrue(Conditions(pod)[i])
            THEN "running" ELSE "creating"
      [] pod.phase = "Succeeded" -> "stopped"
      [] pod.phase = "Failed" -> "error"
      [] OTHER -> "error"

PodToRunnerStatus_FromAnnotation(pod) == pod.statusAnnotation

\* PodToRunner, as far as the status goes.
PodToRunnerStatus(pod) == MapPodStatusToRunnerStatus(pod)


\* ------------------------------------------------- request surface
\* Requests with and without each required field; a timeout of zero asks for
\* the default.
Requests == [runnerId : {EmptyId, 1}, command : {"", "cmd"}, timeout : {-1, 0}]

\* Valid requests with the default and with a client-supplied timeout.
TimedRequests == [runnerId : {1}, command : {"cmd"}, timeout : {0, 1}]

\* Server.validateExecuteCommandRequest: the error text, or "nil".
validateExecuteCommandRequest(r) ==
    IF r.runnerId = EmptyId THEN "runner_id is required"
    ELSE IF r.command = "" THEN "command is required"
    ELSE IF r.timeout < 0 THEN "timeout must be non-negative"
    ELSE "nil"

\* Server.ListRunners up to the service call: the status returned without
\* calling the service, or "nil" when the service is called.
validateListRunnersRequest(limit, offset) ==
    IF limit < 0 \/ offset < 0 THEN "InvalidArgument" ELSE "nil"

WithDefaultTimeout_Keep(r) == r

\* The same function's write to req.Timeout.
WithDefaultTimeout(r) ==
    IF r.timeout = 0 THEN [r EXCEPT !.timeout = DefaultTimeout] ELSE r

\* An error is the chain of its layers, outermost first: the wrappers that
\* fmt.Errorf("%w: ...") adds, then the error wrapped.
ErrorsIs_Outermost(chain, target) == chain[1] = target

\* errors.Is(err, target): some layer of the chain is the target.
ErrorsIs(chain, target) == \E i \in 1..Len(chain) : chain[i] = target

\* Server.mapServiceError on a chain: the switch takes the first case that
\* matches.
mapServiceErrorChain(chain) ==
    IF ErrorsIs(chain, "ErrRunnerNotFound") THEN "NotFound"
    ELSE IF ErrorsIs(chain, "ErrRunnerNotRunning") THEN "FailedPrecondition"
    ELSE IF ErrorsIs(chain, "ErrInvalidRequest") THEN "InvalidArgument"
    ELSE IF ErrorsIs(chain, "ErrResourceConflict") THEN "AlreadyExists"
    ELSE IF ErrorsIs(chain, "ErrKubernetesAPI") THEN "Internal"
    ELSE IF ErrorsIs(chain, "ErrCommandExecution") THEN "Internal"
    ELSE "Internal"

\* Server.mapServiceError: error kind (errors.Is sees through wrapping) to status.
mapServiceError(err) == mapServiceErrorChain(<<err>>)

\* stream.Context() is done once the client or the transport cancelled, and
\* once the handler has returned (the server cancels the stream's context).
CtxDone == cancelled \/ hpc = "done"

\* Outcomes of stream.Send: it succeeds on a live stream and may fail on a
\* cancelled one.
SendResults == IF cancelled THEN {TRUE, FALSE} ELSE {TRUE}

FrameKind(fd) == IF fd = "stdout" THEN "STDOUT" ELSE "STDERR"

DataFrame_Swapped(fd, data) ==
    [type |-> IF fd = "stdout" THEN "STDERR" ELSE "STDOUT", data |-> data, exitCode |-> 0]

\* The ExecuteCommandStreamResponse of a stdout / stderr chunk.
DataFrame(fd, data) == [type |-> FrameKind(fd), data |-> data, exitCode |-> 0]

\* The terminal ExecuteCommandStreamResponse.
ExitFrame(code) == [type |-> "EXIT", data |-> <<>>, exitCode |-> code]

\* The statement after a data case: the block guarded by
\* stdoutCh == nil && stderrCh == nil, else the next iteration.
AfterData == IF chNil["stdout"] /\ chNil["stderr"] THEN "wait" ELSE "select"

AfterExit_Loops == "select"

\* The EXIT case returns from the handler.
AfterExit == "done"

\* ------------------------------------- Server.ExecuteCommandStream
\* Validation, conversion, channel creation and the start of the goroutine.
HandlerStart ==
    /\ hpc = "start"
    /\ IF validateExecuteCommandRequest(req) # "nil"
       THEN /\ hpc' = "done"
            /\ hret' = "InvalidArgument"
            /\ UNCHANGED <<req, ppc>>
       ELSE /\ req' = WithDefaultTimeout(req)
            /\ hpc' = "select"
            /\ ppc' = "service"
            /\ UNCHANGED hret
    /\ UNCHANGED <<chNil, frames, cancelled, svcRet, fetched, execInvoked,
                   exitCh, exitClosed, errCh, errClosed, gatewayVars, elapsed, clusterVars>>

\* case data, ok := <-stdoutCh (fd = "stdout"), <-stderrCh (fd = "stderr").
HandlerRecvData(fd) ==
    /\ hpc = "select"
    /\ ~chNil[fd]
    /\ \/ /\ ch[fd] # <<>>
          /\ LET data == Head(ch[fd]) IN
             /\ ch' = [ch EXCEPT ![fd] = Tail(@)]
             /\ IF Len(data) > 0
                THEN \E ok \in SendResults :
                        IF ok THEN /\ frames' = Append(frames, DataFrame(fd, data))
                                   /\ hpc' = AfterData
                                   /\ UNCHANGED hret
                              ELSE /\ hpc' = "done"
                                   /\ hret' = "SendError"
                                   /\ UNCHANGED frames
                ELSE /\ hpc' = AfterData
                     /\ UNCHANGED <<frames, hret>>
          /\ UNCHANGED chNil
       \/ /\ ch[fd] = <<>>
          /\ chClosed[fd]
          /\ chNil' = [chNil EXCEPT ![fd] = TRUE]
          /\ UNCHANGED <<ch, frames, hpc, hret>>
    /\ UNCHANGED <<req, cancelled, producerVars, chClosed, rpc, rline, produced,
                   cmdState, cmdExit, budget, pipe, pipeClosed, written, elapsed, clusterVars>>

\* case exitCode := <-exitCh: a buffered value, or the zero value of a closed
\* channel.
HandlerRecvExit ==
    /\ hpc = "select"
    /\ exitCh # <<>> \/ exitClosed
    /\ LET code == IF exitCh # <<>> THEN Head(exitCh) ELSE 0 IN
       \E ok \in SendResults :
           /\ frames' = IF ok THEN Append(frames, ExitFrame(code)) ELSE frames
           /\ hret' = IF ok THEN "OK" ELSE "SendError"
    /\ exitCh' = IF exitCh # <<>> THEN Tail(exitCh) ELSE exitCh
    /\ hpc' = AfterExit
    /\ UNCHANGED <<req, chNil, cancelled, ppc, svcRet, fetched, execInvoked,
                   exitClosed, errCh, errClosed, gatewayVars, elapsed, clusterVars>>

\* case err := <-errCh: a buffered error, or nil from a closed channel.
HandlerRecvErr ==
    /\ hpc = "select"
    /\ errCh # <<>> \/ errClosed
    /\ LET err == IF errCh # <<>> THEN Head(errCh) ELSE "nil" IN
       hret' = mapServiceError(err)
    /\ errCh' = IF errCh # <<>> THEN Tail(errCh) ELSE errCh
    /\ hpc' = "done"
    /\ UNCHANGED <<req, chNil, frames, cancelled, ppc, svcRet, fetched, execInvoked,
                   exitCh, exitClosed, errClosed, gatewayVars, elapsed, clusterVars>>

\* case <-stream.Context().Done().
HandlerCtxDone ==
    /\ hpc = "select"
    /\ cancelled
    /\ hpc' = "done"
    /\ hret' = "Canceled"
    /\ UNCHANGED <<req, chNil, frames, cancelled, producerVars, gatewayVars, elapsed, clusterVars>>

\* The client goes away or the transport breaks while the call is open.
ClientCancel ==
    /\ hpc # "done"
    /\ ~cancelled
    /\ cancelled' = TRUE
    /\ UNCHANGED <<req, hpc, chNil, frames, hret, producerVars, gatewayVars, elapsed, clusterVars>>


\* ------------------------------------------------- ActivityTracker
\* An entry holds the minutes since its instant: now.Sub(lastActive), counted
\* up to one past the reaper's threshold, which is all a comparison can see.
AgeCap == InactiveTimeout + 1

EmptyTracker == [x \in {} |-> 0]

\* at.lastActiveTimes[runnerID] = now.
UpdateLastActiveTime(m, id) ==
    [x \in DOMAIN m \cup {id} |-> IF x = id THEN 0 ELSE m[x]]

\* delete(at.lastActiveTimes, runnerID).
RemoveRunner(m, id) == [x \in DOMAIN m \ {id} |-> m[x]]

\* The identifiers with now.Sub(lastActive) > inactiveDuration.
GetInactiveRunners(m, inactiveDuration) == {x \in DOMAIN m : m[x] > inactiveDuration}

\* The touch of the streaming call: the entry of the request's runner is set
\* to now when the execution starts.
TouchOnExecute(m, id) == UpdateLastActiveTime(m, id)

\* ------------------------- runnerService.ExecuteCommandStream (service)
\* k8sClient.GetRunnerPod: the pod, or an error (the pod is missing, or the
\* cluster call failed).
GetRunnerPodResults_Stale(id) == {[found |-> TRUE, pod |-> NewPod]}

GetRunnerPodResults(id) ==
    {[found |-> FALSE, pod |-> NoPod]}
    \cup (IF id \in RunnerIds /\ pods[id].exists
          THEN {[found |-> TRUE, pod |-> pods[id]]} ELSE {})

ExecPrecondition_AlsoCreating(status) == status \in {"running", "creating"}

\* The negation of runner.Status != RunnerStatusRunning.
ExecPrecondition(status) == status = "running"

\* What the service returns for the gateway's (code, err).
ServiceReturn(code, err) ==
    IF err # "nil" THEN [code |-> 1, err |-> "ErrCommandExecution"]
    ELSE [code |-> code, err |-> "nil"]

\* The goroutine calls the service: fetch the pod, project it, check the state.
ServiceCall ==
    /\ ppc = "service"
    /\ \E r \in GetRunnerPodResults(req.runnerId) :
        IF ~r.found
        THEN /\ svcRet' = [code |-> 1, err |-> "ErrRunnerNotFound"]
             /\ fetched' = "notfound"
             /\ ppc' = "result"
             /\ UNCHANGED execInvoked
        ELSE IF ~ExecPrecondition(PodToRunnerStatus(r.pod))
        THEN /\ svcRet' = [code |-> 1, err |-> "ErrRunnerNotRunning"]
             /\ fetched' = PodToRunnerStatus(r.pod)
             /\ ppc' = "result"
             /\ UNCHANGED execInvoked
        ELSE /\ fetched' = PodToRunnerStatus(r.pod)
             /\ execInvoked' = TRUE
             /\ ppc' = "start"
             /\ UNCHANGED svcRet
    /\ lastActiveTimes' = TouchOnExecute(lastActiveTimes, req.runnerId)
    /\ exercised' = [exercised EXCEPT ![req.runnerId] = @ \/ pods[req.runnerId].exists]
    /\ UNCHANGED <<req, handlerVars, exitCh, exitClosed, errCh, errClosed,
                   gatewayVars, elapsed, pods, cpc, cInactive, cCur, cStatus, lifecycleVars, sideVars>>

\* ------------------------- KubernetesClient.ExecuteCommandStream (gateway)
\* exec.CommandContext, the pipes, cmd.Start and the two go statements; or a
\* failure before the readers exist (Start refuses a done context).
GatewayStart ==
    /\ ppc = "start"
    /\ \/ /\ ~CtxDone
          /\ cmdState' = "running"
          /\ rpc' = [fd \in Fds |-> "scan"]
          /\ ppc' = "wait"
          /\ UNCHANGED svcRet
       \/ /\ svcRet' = ServiceReturn(1, "start failed")
          /\ ppc' = "result"
          /\ UNCHANGED <<cmdState, rpc>>
    /\ UNCHANGED <<req, handlerVars, fetched, execInvoked, exitCh, exitClosed, errCh,
                   errClosed, ch, chClosed, rline, produced, cmdExit, budget, pipe,
                   pipeClosed, written, elapsed, clusterVars>>

\* cmd.Wait returns once the command has exited and closes the pipes' read
\* ends; an *exec.ExitError gives its code, success gives 0.
GatewayWait ==
    /\ ppc = "wait"
    /\ cmdState = "exited"
    /\ pipeClosed' = TRUE
    /\ svcRet' = ServiceReturn(cmdExit, "nil")
    /\ ppc' = "result"
    /\ UNCHANGED <<req, handlerVars, fetched, execInvoked, exitCh, exitClosed, errCh,
                   errClosed, ch, chClosed, rpc, rline, produced, cmdState, cmdExit,
                   budget, pipe, written, elapsed, clusterVars>>

ReaderReturned_Rescan == "scan"

\* A reader goroutine after its deferred close(stdoutCh) or close(stderrCh):
\* the function has returned.
ReaderReturned == "done"

\* A reader's scanner.Scan(): the next line (empty lines are skipped, others
\* are copied with a trailing '\n'), or false at end of file or on a closed
\* pipe, and then the deferred close of the channel.
ReaderScan(fd) ==
    /\ rpc[fd] = "scan"
    /\ \/ /\ ~pipeClosed
          /\ pipe[fd] # <<>>
          /\ LET line == Head(pipe[fd]) IN
             /\ pipe' = [pipe EXCEPT ![fd] = Tail(@)]
             /\ IF Len(line) > 0
                THEN /\ rline' = [rline EXCEPT ![fd] = Append(line, NL)]
                     /\ rpc' = [rpc EXCEPT ![fd] = "send"]
                ELSE UNCHANGED <<rline, rpc>>
          /\ UNCHANGED chClosed
       \/ /\ pipeClosed \/ (pipe[fd] = <<>> /\ cmdState = "exited")
          /\ chClosed' = [chClosed EXCEPT ![fd] = TRUE]
          /\ rpc' = [rpc EXCEPT ![fd] = ReaderReturned]
          /\ UNCHANGED <<pipe, rline>>
    /\ UNCHANGED <<req, handlerVars, producerVars, ch, produced, cmdState, cmdExit,
                   budget, pipeClosed, written, elapsed, clusterVars>>

\* The reader's case <-ctx.Done() is ready.
ReaderCtxReady == CtxDone

\* A reader's select: give up on a done context (and close the channel), or
\* send the chunk when the channel has room.
ReaderSend(fd) ==
    /\ rpc[fd] = "send"
    /\ \/ /\ ReaderCtxReady
          /\ chClosed' = [chClosed EXCEPT ![fd] = TRUE]
          /\ rpc' = [rpc EXCEPT ![fd] = ReaderReturned]
          /\ UNCHANGED <<ch, produced>>
       \/ /\ Len(ch[fd]) < ChanCap
          /\ ch' = [ch EXCEPT ![fd] = Append(@, rline[fd])]
          /\ produced' = [produced EXCEPT ![fd] = Append(@, rline[fd])]
          /\ rpc' = [rpc EXCEPT ![fd] = "scan"]
          /\ UNCHANGED chClosed
    /\ rline' = [rline EXCEPT ![fd] = <<>>]
    /\ UNCHANGED <<req, handlerVars, producerVars, cmdState, cmdExit, budget,
                   pipe, pipeClosed, written, elapsed, clusterVars>>

\* ------------------------------------------- the executed command
ExitCodes == {0, 2}

\* The byte of the next non-empty line: lines differ from each other.
NextByte == Len(written["stdout"]) + Len(written["stderr"]) + 1

\* The command writes one line, empty or not, to stdout or stderr.
CmdWrite(fd) ==
    /\ cmdState = "running"
    /\ budget > 0
    /\ \E line \in {<<>>, <<NextByte>>} :
         /\ pipe' = [pipe EXCEPT ![fd] = Append(@, line)]
         /\ written' = [written EXCEPT ![fd] = Append(@, line)]
    /\ budget' = budget - 1
    /\ UNCHANGED <<req, handlerVars, producerVars, ch, chClosed, rpc, rline, produced,
                   cmdState, cmdExit, pipeClosed, elapsed, clusterVars>>

\* The command exits by itself.
CmdExit ==
    /\ cmdState = "running"
    /\ \E code \in ExitCodes : cmdExit' = code
    /\ cmdState' = "exited"
    /\ UNCHANGED <<req, handlerVars, producerVars, ch, chClosed, rpc, rline, produced,
                   budget, pipe, pipeClosed, written, elapsed, clusterVars>>

KillOnCancel_Never == FALSE

\* exec.CommandContext kills the command when its context is done.
KillOnCancel == CtxDone

\* The kill takes effect: the command is gone, with exit code -1.
CmdKilled ==
    /\ cmdState = "running"
    /\ KillOnCancel
    /\ cmdState' = "exited"
    /\ cmdExit' = -1
    /\ UNCHANGED <<req, handlerVars, producerVars, ch, chClosed, rpc, rline, produced,
                   budget, pipe, pipeClosed, written, elapsed, clusterVars>>

\* ------------------------------------------ the producing goroutine
ProducerResult_Drops ==
    /\ ppc = "result"
    /\ ppc' = "done"
    /\ UNCHANGED <<req, handlerVars, svcRet, fetched, execInvoked, exitCh, errCh,
                   exitClosed, errClosed, gatewayVars, elapsed, clusterVars>>

\* errCh <- err, or exitCh <- exitCode.
ProducerResult ==
    /\ ppc = "result"
    /\ IF svcRet.err # "nil"
       THEN /\ errCh' = Append(errCh, svcRet.err)
            /\ UNCHANGED exitCh
       ELSE /\ exitCh' = Append(exitCh, svcRet.code)
            /\ UNCHANGED errCh
    /\ ppc' = "closeErr"
    /\ UNCHANGED <<req, handlerVars, svcRet, fetched, execInvoked, exitClosed, errClosed,
                   gatewayVars, elapsed, clusterVars>>

\* defer close(errCh), registered last and run first.
ProducerCloseErr ==
    /\ ppc = "closeErr"
    /\ errClosed' = TRUE
    /\ ppc' = "closeExit"
    /\ UNCHANGED <<req, handlerVars, svcRet, fetched, execInvoked, exitCh, exitClosed,
                   errCh, gatewayVars, elapsed, clusterVars>>

\* defer close(exitCh).
ProducerCloseExit ==
    /\ ppc = "closeExit"
    /\ exitClosed' = TRUE
    /\ ppc' = "done"
    /\ UNCHANGED <<req, handlerVars, svcRet, fetched, execInvoked, exitCh, errCh,
                   errClosed, gatewayVars, elapsed, clusterVars>>

\* ------------------------------------------------ the streaming call
PodSnapshots ==
    {NoPod} \cup
    {[exists |-> TRUE, phase |-> p[1], ready |-> p[2], finalizer |-> TRUE, deleting |-> FALSE] :
        p \in {<<"Pending", FALSE>>, <<"Running", FALSE>>, <<"Running", TRUE>>,
               <<"Succeeded", FALSE>>, <<"Failed", FALSE>>, <<"Unknown", FALSE>>}}

StreamIdle ==
    /\ hpc = "start"
    /\ chNil = [fd \in Fds |-> FALSE]
    /\ frames = <<>>
    /\ hret = "none"
    /\ cancelled = FALSE
    /\ ppc = "idle"
    /\ svcRet = [code |-> 0, err |-> "nil"]
    /\ fetched = "none"
    /\ execInvoked = FALSE
    /\ exitCh = <<>> /\ exitClosed = FALSE
    /\ errCh = <<>> /\ errClosed = FALSE
    /\ ch = [fd \in Fds |-> <<>>]
    /\ chClosed = [fd \in Fds |-> FALSE]
    /\ rpc = [fd \in Fds |-> "none"]
    /\ rline = [fd \in Fds |-> <<>>]
    /\ produced = [fd \in Fds |-> <<>>]
    /\ cmdState = "none"
    /\ cmdExit = 0
    /\ pipe = [fd \in Fds |-> <<>>]
    /\ pipeClosed = FALSE
    /\ written = [fd \in Fds |-> <<>>]
    /\ elapsed = 0

\* No tracked runner, the reaper between two ticks.
ReaperIdle ==
    /\ lastActiveTimes = EmptyTracker
    /\ cpc = "idle"
    /\ cInactive = {}
    /\ cCur = EmptyId
    /\ cStatus = "none"
    /\ exercised = [id \in RunnerIds |-> FALSE]
    /\ lifecycle = [stopCh |-> "open", startCtxDone |-> FALSE, tickPending |-> FALSE]

None == <<>>
Projections == {"CreateRunner", "GetRunner", "ListRunners", "ExecuteCommandStream"}
\* No operation looked at on its own.
SideIdle == unit = <<>>

\* One streaming call: any request, against a cluster in which runner-1 is
\* missing or in any pod state.
Init ==
    /\ req \in Requests
    /\ \E p \in PodSnapshots : pods = [id \in RunnerIds |-> IF id = 1 THEN p ELSE NoPod]
    /\ budget = MaxWrites
    /\ StreamIdle
    /\ ReaperIdle
    /\ SideIdle

Next ==
    \/ HandlerStart
    \/ \E fd \in Fds : HandlerRecvData(fd)
    \/ HandlerRecvExit
    \/ HandlerRecvErr
    \/ HandlerCtxDone
    \/ ClientCancel
    \/ ServiceCall
    \/ GatewayStart
    \/ GatewayWait
    \/ \E fd \in Fds : ReaderScan(fd)
    \/ \E fd \in Fds : ReaderSend(fd)
    \/ \E fd \in Fds : CmdWrite(fd)
    \/ CmdExit
    \/ CmdKilled
    \/ ProducerResult
    \/ ProducerCloseErr
    \/ ProducerCloseExit

Spec == Init /\ [][Next]_vars


\* Fairness of the scheduler: while some goroutine of the call can run, or the
\* kill of exec.CommandContext is pending, one of them eventually takes a
\* step. The client and the command itself are free to stay idle.
HandlerStep ==
    \/ HandlerStart
    \/ \E fd \in Fds : HandlerRecvData(fd)
    \/ HandlerRecvExit
    \/ HandlerRecvErr
    \/ HandlerCtxDone

ProducerStep ==
    \/ ServiceCall
    \/ GatewayStart
    \/ GatewayWait
    \/ ProducerResult
    \/ ProducerCloseErr
    \/ ProducerCloseExit

ReaderStep(fd) == ReaderScan(fd) \/ ReaderSend(fd)

SystemStep ==
    \/ HandlerStep
    \/ ProducerStep
    \/ \E fd \in Fds : ReaderStep(fd)
    \/ CmdKilled

FairSpec ==
    /\ Init
    /\ [][Next]_vars
    /\ WF_vars(SystemStep)

\* ------------------------------------------- the request's timeout
\* A second passes while the command runs.
Tick ==
    /\ cmdState = "running"
    /\ elapsed < MaxElapsed
    /\ elapsed' = elapsed + 1
    /\ UNCHANGED <<req, handlerVars, producerVars, gatewayVars, clusterVars>>

RunningPod == [NewPod EXCEPT !.phase = "Running", !.ready = TRUE]

\* A valid request (timeout zero or one second) for a RUNNING runner, and a
\* command that writes at most one line and then keeps running.
InitTimeout ==
    /\ req \in TimedRequests
    /\ pods = [id \in RunnerIds |-> IF id = 1 THEN RunningPod ELSE NoPod]
    /\ budget = 1
    /\ StreamIdle
    /\ ReaperIdle
    /\ SideIdle

NextTimeout == Next \/ Tick

SpecTimeout == InitTimeout /\ [][NextTimeout]_vars

\* ------------------------------------- the runner service on the cluster
RECURSIVE MaxOf(_)
MaxOf(S) ==
    IF S = {} THEN 0
    ELSE LET x == CHOOSE y \in S : TRUE
             m == MaxOf(S \ {x})
         IN IF x > m THEN x ELSE m

\* runnerService.generateRunnerID: one past the largest identifier among the
\* listed pods.
generateRunnerID == MaxOf({id \in RunnerIds : pods[id].exists}) + 1

\* runnerService.CreateRunner where the pod is created. A call that fails
\* before the pod exists changes nothing.
CreateRunner ==
    /\ generateRunnerID \in RunnerIds
    /\ pods' = [pods EXCEPT ![generateRunnerID] = NewPod]
    /\ exercised' = [exercised EXCEPT ![generateRunnerID] = FALSE]
    /\ UNCHANGED <<lastActiveTimes, cpc, cInactive, cCur, cStatus, outerVars>>

\* runnerService.GetRunner: the projected status, or "notfound" for any error
\* of GetRunnerPod.
GetRunner(id) ==
    {IF r.found THEN PodToRunnerStatus(r.pod) ELSE "notfound" : r \in GetRunnerPodResults(id)}

\* runnerService.DeleteRunner: the error returned and the pod left behind.
\* The pod is fetched, its finalizer removed, its deletion requested; each of
\* the three cluster calls may fail.
DeleteRunnerResults(id) ==
    IF ~pods[id].exists
    THEN {[err |-> "ErrRunnerNotFound", pod |-> pods[id]]}
    ELSE {[err |-> "ErrRunnerNotFound", pod |-> pods[id]],
          [err |-> "ErrKubernetesAPI", pod |-> pods[id]],
          [err |-> "ErrKubernetesAPI", pod |-> [pods[id] EXCEPT !.finalizer = FALSE]],
          [err |-> "nil", pod |-> [pods[id] EXCEPT !.finalizer = FALSE, !.deleting = TRUE]]}

\* A client's DeleteRunner call.
DeleteRunner(id) ==
    /\ \E r \in DeleteRunnerResults(id) :
         /\ r.pod # pods[id]
         /\ pods' = [pods EXCEPT ![id] = r.pod]
    /\ UNCHANGED <<reaperVars, outerVars>>

\* A client's ExecuteCommandStream call for a runner, as far as the tracker
\* goes.
ExecuteCommandStream(id) ==
    /\ lastActiveTimes' = TouchOnExecute(lastActiveTimes, id)
    /\ exercised' = [exercised EXCEPT ![id] = @ \/ pods[id].exists]
    /\ lastActiveTimes' # lastActiveTimes \/ exercised' # exercised
    /\ UNCHANGED <<pods, cpc, cInactive, cCur, cStatus, outerVars>>

\* ------------------------------------------------------- the cluster
\* The pod's containers come up.
PodReady(id) ==
    /\ pods[id].exists
    /\ pods[id].phase = "Pending"
    /\ ~pods[id].deleting
    /\ pods' = [pods EXCEPT ![id].phase = "Running", ![id].ready = TRUE]
    /\ UNCHANGED <<reaperVars, outerVars>>

\* The pod ends by itself.
PodExit(id) ==
    /\ pods[id].exists
    /\ pods[id].phase \in {"Pending", "Running"}
    /\ \E ph \in {"Succeeded", "Failed"} :
         pods' = [pods EXCEPT ![id].phase = ph, ![id].ready = FALSE]
    /\ UNCHANGED <<reaperVars, outerVars>>

\* The cluster removes a pod whose deletion was requested and that holds no
\* finalizer.
PodRemoved(id) ==
    /\ pods[id].exists
    /\ pods[id].deleting
    /\ ~pods[id].finalizer
    /\ pods' = [pods EXCEPT ![id] = NoPod]
    /\ exercised' = [exercised EXCEPT ![id] = FALSE]
    /\ UNCHANGED <<lastActiveTimes, cpc, cInactive, cCur, cStatus, outerVars>>

\* A minute passes.
Minute ==
    /\ \E x \in DOMAIN lastActiveTimes : lastActiveTimes[x] < AgeCap
    /\ lastActiveTimes' = [x \in DOMAIN lastActiveTimes |->
                              IF lastActiveTimes[x] < AgeCap THEN lastActiveTimes[x] + 1
                              ELSE lastActiveTimes[x]]
    /\ UNCHANGED <<pods, cpc, cInactive, cCur, cStatus, exercised, outerVars>>

\* ------------------------------------------------- CleanupService
IsTerminal_StoppedOnly(status) == status = "stopped"

\* runner.Status == RunnerStatusStopped || runner.Status == RunnerStatusError.
IsTerminal(status) == status \in {"stopped", "error"}

\* case <-ticker.C: cleanupInactiveRunners up to its loop.
cleanupInactiveRunners ==
    /\ cpc = "idle"
    /\ LET inactiveRunners == GetInactiveRunners(lastActiveTimes, InactiveTimeout) IN
       /\ inactiveRunners # {}
       /\ cInactive' = inactiveRunners
       /\ cpc' = "loop"
    /\ UNCHANGED <<pods, lastActiveTimes, cCur, cStatus, exercised, outerVars>>

\* deleteInactiveRunner for the next identifier, up to its DeleteRunner call:
\* a missing or terminal runner loses its entry and is left alone.
deleteInactiveRunner ==
    /\ cpc = "loop"
    /\ \E id \in cInactive :
         /\ cInactive' = cInactive \ {id}
         /\ cCur' = id
         /\ \E status \in GetRunner(id) :
              /\ cStatus' = status
              /\ IF status = "notfound" \/ IsTerminal(status)
                 THEN /\ lastActiveTimes' = RemoveRunner(lastActiveTimes, id)
                      /\ cpc' = "loop"
                 ELSE /\ cpc' = "delete"
                      /\ UNCHANGED lastActiveTimes
    /\ UNCHANGED <<pods, exercised, outerVars>>

AfterDelete_AlwaysRemove(m, id, err) == RemoveRunner(m, id)

\* The loop's use of deleteInactiveRunner's result: RemoveRunner when the
\* delete went through, nothing when it returned an error.
AfterDelete(m, id, err) == IF err = "nil" THEN RemoveRunner(m, id) ELSE m

\* cs.runnerService.DeleteRunner and what the loop does with its result: the
\* entry goes on success and stays on failure.
reaperDeleteRunner ==
    /\ cpc = "delete"
    /\ \E r \in DeleteRunnerResults(cCur) :
         /\ pods' = [pods EXCEPT ![cCur] = r.pod]
         /\ lastActiveTimes' = AfterDelete(lastActiveTimes, cCur, r.err)
    /\ cpc' = "loop"
    /\ UNCHANGED <<cInactive, cCur, cStatus, exercised, outerVars>>

\* Some case of Start's select can proceed.
SelectReady == tickPending \/ stopCh = "closed" \/ startCtxDone

\* The loop is over: the summary is logged and Start is back at its select,
\* blocked ("idle") unless a case is ready.
cleanupCycleEnd ==
    /\ cpc = "loop"
    /\ cInactive = {}
    /\ cpc' = IF SelectReady THEN "select" ELSE "idle"
    /\ cCur' = EmptyId
    /\ cStatus' = "none"
    /\ UNCHANGED <<pods, lastActiveTimes, cInactive, exercised, outerVars>>

\* An empty cluster, no streaming call in the model's view.
InitReaper ==
    /\ pods = [id \in RunnerIds |-> NoPod]
    /\ req = [runnerId |-> 1, command |-> "cmd", timeout |-> 0]
    /\ budget = 0
    /\ StreamIdle
    /\ ReaperIdle
    /\ SideIdle

NextReaper ==
    \/ CreateRunner
    \/ \E id \in RunnerIds : DeleteRunner(id)
    \/ \E id \in RunnerIds : ExecuteCommandStream(id)
    \/ \E id \in RunnerIds : PodReady(id)
    \/ \E id \in RunnerIds : PodExit(id)
    \/ \E id \in RunnerIds : PodRemoved(id)
    \/ Minute
    \/ cleanupInactiveRunners
    \/ deleteInactiveRunner
    \/ reaperDeleteRunner
    \/ cleanupCycleEnd

SpecReaper == InitReaper /\ [][NextReaper]_vars

\* ------------------------------------- CleanupService.Start and Stop
\* Start's goroutine is "idle" while it is blocked in its select with no case
\* ready; the event that wakes it puts it in "select", where the select is
\* evaluated over the cases ready at that moment. Events that arrive during a
\* cycle are there when the cycle ends.
AtSelectOr(pc) == IF cpc = "idle" THEN "select" ELSE pc

\* The ticker fires; ticker.C holds one tick, a second one is dropped.
TickerFire ==
    /\ cpc \in {"idle", "loop", "delete"}
    /\ ~tickPending
    /\ lifecycle' = [lifecycle EXCEPT !.tickPending = TRUE]
    /\ cpc' = AtSelectOr(cpc)
    /\ UNCHANGED <<pods, lastActiveTimes, cInactive, cCur, cStatus, exercised,
                   streamVars, sideVars>>

\* CleanupService.Stop: close(cs.stopCh).
Stop ==
    /\ stopCh = "open"
    /\ cpc # "select"
    /\ lifecycle' = [lifecycle EXCEPT !.stopCh = "closed"]
    /\ cpc' = AtSelectOr(cpc)
    /\ UNCHANGED <<pods, lastActiveTimes, cInactive, cCur, cStatus, exercised,
                   streamVars, sideVars>>

\* The caller cancels the context it passed to Start.
CancelStartCtx ==
    /\ ~startCtxDone
    /\ cpc # "select"
    /\ lifecycle' = [lifecycle EXCEPT !.startCtxDone = TRUE]
    /\ cpc' = AtSelectOr(cpc)
    /\ UNCHANGED <<pods, lastActiveTimes, cInactive, cCur, cStatus, exercised,
                   streamVars, sideVars>>

\* case <-ticker.C: the tick is taken and cleanupInactiveRunners runs up to
\* its loop; with nothing inactive it returns at once and Start selects again.
SelectTick ==
    /\ cpc = "select"
    /\ tickPending
    /\ lifecycle' = [lifecycle EXCEPT !.tickPending = FALSE]
    /\ LET inactiveRunners == GetInactiveRunners(lastActiveTimes, InactiveTimeout) IN
       IF inactiveRunners = {}
       THEN /\ cpc' = IF stopCh = "closed" \/ startCtxDone THEN "select" ELSE "idle"
            /\ UNCHANGED cInactive
       ELSE /\ cInactive' = inactiveRunners
            /\ cpc' = "loop"
    /\ UNCHANGED <<pods, lastActiveTimes, cCur, cStatus, exercised,
                   streamVars, sideVars>>

\* case <-cs.stopCh.
SelectStop ==
    /\ cpc = "select"
    /\ stopCh = "closed"
    /\ cpc' = "stopping"
    /\ UNCHANGED <<pods, lastActiveTimes, cInactive, cCur, cStatus, exercised,
                   lifecycleVars, streamVars, sideVars>>

\* case <-ctx.Done().
SelectCtxDone ==
    /\ cpc = "select"
    /\ startCtxDone
    /\ cpc' = "stopping"
    /\ UNCHANGED <<pods, lastActiveTimes, cInactive, cCur, cStatus, exercised,
                   lifecycleVars, streamVars, sideVars>>

\* return, and the deferred ticker.Stop().
StartReturn ==
    /\ cpc = "stopping"
    /\ cpc' = "returned"
    /\ lifecycle' = [lifecycle EXCEPT !.tickPending = FALSE]
    /\ UNCHANGED <<pods, lastActiveTimes, cInactive, cCur, cStatus, exercised,
                   streamVars, sideVars>>

NextLifecycle ==
    \/ CreateRunner
    \/ \E id \in RunnerIds : DeleteRunner(id)
    \/ \E id \in RunnerIds : ExecuteCommandStream(id)
    \/ \E id \in RunnerIds : PodReady(id)
    \/ \E id \in RunnerIds : PodExit(id)
    \/ \E id \in RunnerIds : PodRemoved(id)
    \/ Minute
    \/ TickerFire
    \/ Stop
    \/ CancelStartCtx
    \/ SelectTick
    \/ SelectStop
    \/ SelectCtxDone
    \/ deleteInactiveRunner
    \/ reaperDeleteRunner
    \/ cleanupCycleEnd
    \/ StartReturn

\* Start's goroutine keeps running, and a select that keeps being evaluated
\* with the stop or the context case ready eventually takes it (the runtime
\* picks among ready cases at random).
StartStep ==
    \/ SelectTick
    \/ SelectStop
    \/ SelectCtxDone
    \/ deleteInactiveRunner
    \/ reaperDeleteRunner
    \/ cleanupCycleEnd
    \/ StartReturn

SpecLifecycle ==
    /\ InitReaper
    /\ [][NextLifecycle]_vars
    /\ WF_vars(StartStep)
    /\ SF_vars(SelectStop \/ SelectCtxDone)

\* The reaper under a fair scheduler and a cluster that answers: minutes keep
\* passing, the reaper's goroutine keeps running, a fetch and a delete that
\* are tried again and again eventually go through, and the cluster removes
\* the pods it may remove.
ReaperStep ==
    \/ cleanupInactiveRunners
    \/ deleteInactiveRunner
    \/ reaperDeleteRunner
    \/ cleanupCycleEnd

FetchSucceeds == deleteInactiveRunner /\ cStatus' # "notfound"

DeleteSucceeds == reaperDeleteRunner /\ pods'[cCur].deleting

FairSpecReaper ==
    /\ InitReaper
    /\ [][NextReaper]_vars
    /\ WF_vars(Minute)
    /\ WF_vars(ReaperStep)
    /\ SF_vars(FetchSucceeds)
    /\ SF_vars(DeleteSucceeds)
    /\ WF_vars(\E id \in RunnerIds : PodRemoved(id))

\* The runner is there, CREATING or RUNNING, and no deletion was requested.
Live(pod) ==
    /\ pod.exists
    /\ ~pod.deleting
    /\ MapPodStatusToRunnerStatus(pod) \in {"creating", "running"}

\* ------------------------------------- runnerService.generateRunnerID
\* A string is the sequence of its characters.
RunnerPrefix == <<"r", "u", "n", "n", "e", "r", "-">>
DigitChars == <<"0", "1", "2", "3", "4", "5", "6", "7", "8", "9">>
IsDigit(c) == \E d \in 1..10 : DigitChars[d] = c
DigitVal(c) == (CHOOSE d \in 1..10 : DigitChars[d] = c) - 1

\* strconv of a non-negative integer, as %d prints it.
RECURSIVE Itoa(_)
Itoa(n) ==
    IF n < 10 THEN <<DigitChars[n + 1]>>
    ELSE Itoa(n \div 10) \o <<DigitChars[(n % 10) + 1]>>

\* fmt.Sprintf("runner-%d", n)
Sprintf(n) == RunnerPrefix \o Itoa(n)

\* The %d verb: an optional sign, then the longest run of decimal digits;
\* what follows the digits is left unread. ok is FALSE with no digit.
RECURSIVE ScanDigits(_, _, _)
ScanDigits(s, acc, seen) ==
    IF s # <<>> /\ IsDigit(Head(s))
    THEN ScanDigits(Tail(s), 10 * acc + DigitVal(Head(s)), TRUE)
    ELSE [ok |-> seen, val |-> acc]

ScanInt(s) ==
    IF s # <<>> /\ Head(s) \in {"+", "-"}
    THEN LET r == ScanDigits(Tail(s), 0, FALSE)
         IN [ok |-> r.ok, val |-> IF Head(s) = "-" THEN 0 - r.val ELSE r.val]
    ELSE ScanDigits(s, 0, FALSE)

\* fmt.Sscanf(str, "runner-%d", &currentID): n = 1 and no error when the
\* literal matches and an integer follows.
Sscanf(str) ==
    IF Len(str) >= 7 /\ SubSeq(str, 1, 7) = RunnerPrefix
    THEN ScanInt(SubSeq(str, 8, Len(str)))
    ELSE [ok |-> FALSE, val |-> 0]

NextMaxID_Count(maxID, currentID) == maxID + 1

\* if currentID > maxID { maxID = currentID }
NextMaxID(maxID, currentID) == IF currentID > maxID THEN currentID ELSE maxID

\* The loop over podList.Items, from item i on.
RECURSIVE MaxIDFrom(_, _, _)
MaxIDFrom(items, i, maxID) ==
    IF i > Len(items) THEN maxID
    ELSE LET pod == items[i]
             scanned == Sscanf(pod.runnerID)
         IN MaxIDFrom(items, i + 1,
                IF /\ pod.annotated
                   /\ Len(pod.runnerID) > 7
                   /\ SubSeq(pod.runnerID, 1, 7) = RunnerPrefix
                   /\ scanned.ok
                THEN NextMaxID(maxID, scanned.val)
                ELSE maxID)

\* generateRunnerID on the listing it obtained.
generateRunnerIDFrom(items) == Sprintf(MaxIDFrom(items, 1, 0) + 1)

\* The runner-id annotations a listed pod can carry: the identifiers
\* CreateRunner writes, and pods of other origin that carry the runner labels
\* with no annotation or with one that is not an identifier.
ForeignIDs ==
    { RunnerPrefix,
      RunnerPrefix \o <<"x">>,
      <<"w", "o", "r", "k", "e", "r", "-", "1", "2">>,
      <<"r", "u", "n", "n", "e", "r", "1", "2">> }
ListedPods ==
    {[annotated |-> TRUE, runnerID |-> Sprintf(n)] : n \in 1..MaxN}
    \cup {[annotated |-> TRUE, runnerID |-> f] : f \in ForeignIDs}
    \cup {[annotated |-> FALSE, runnerID |-> <<>>]}
RECURSIVE SeqsUpTo(_, _)
SeqsUpTo(S, n) ==
    IF n = 0 THEN {<<>>}
    ELSE LET shorter == SeqsUpTo(S, n - 1)
         IN shorter \cup {Append(q, x) : q \in shorter, x \in S}
Listings == SeqsUpTo(ListedPods, MaxPods)

\* generateRunnerID, the listing obtained.
GenerateRunnerID ==
    /\ newID = None
    /\ unit' = [unit EXCEPT !.newID = generateRunnerIDFrom(podList)]
    /\ UNCHANGED <<pods, reaperVars, lifecycleVars, streamVars>>

InitAlloc ==
    /\ pods = [id \in RunnerIds |-> NoPod]
    /\ req = [runnerId |-> 1, command |-> "cmd", timeout |-> 0]
    /\ budget = 0
    /\ StreamIdle
    /\ ReaperIdle
    /\ \E items \in Listings : unit = [podList |-> items, newID |-> None]

NextAlloc == GenerateRunnerID

SpecAlloc == InitAlloc /\ [][NextAlloc]_vars

\* ------------------------------------- concurrent CreateRunner calls
\* The cluster holds pods by name; every call below is one request to it.
GradRunnerPrefix == <<"g", "r", "a", "d", "-">> \o RunnerPrefix

\* fmt.Sprintf("grad-runner-%s", runner.ID)
PodName(runnerID) == GradRunnerPrefix \o runnerID

\* ToPodSpec: name, runner-id annotation and finalizer of the created pod.
ToPodSpec(uid, runnerID) ==
    [uid |-> uid, name |-> PodName(runnerID), runnerID |-> runnerID,
     finalizer |-> TRUE, deleting |-> FALSE]

RECURSIVE SetToSeq(_)
SetToSeq(S) ==
    IF S = {} THEN <<>>
    ELSE LET x == CHOOSE y \in S : TRUE
         IN <<x>> \o SetToSeq(S \ {x})

\* ListRunnerPods: every pod of the namespace, terminating ones included.
ListedItems(ns) ==
    SetToSeq({[annotated |-> TRUE, runnerID |-> p.runnerID] : p \in ns})

NameTaken_Never(ns, name) == FALSE

\* Pods(namespace).Create answers AlreadyExists for a name in use.
NameTaken(ns, name) == \E p \in ns : p.name = name

\* CreateRunner up to the identifier: generateRunnerID on a fresh listing.
CreateRunnerGenerate(c) ==
    /\ callPc[c] = "idle"
    /\ unit' = [unit EXCEPT !.callID[c] = generateRunnerIDFrom(ListedItems(namespace)),
                            !.callPc[c] = "generated"]
    /\ UNCHANGED <<pods, reaperVars, lifecycleVars, streamVars>>

\* s.k8sClient.CreateRunnerPod(ctx, runner): any error, a name collision
\* included, is returned wrapped in ErrKubernetesAPI.
CreateRunnerPod(c) ==
    /\ callPc[c] = "generated"
    /\ IF NameTaken(namespace, PodName(callID[c]))
       THEN unit' = [unit EXCEPT !.callRet[c] =
                                     [err |-> "ErrKubernetesAPI", id |-> None,
                                      clusterErr |-> "AlreadyExists"],
                                  !.callPc[c] = "returned"]
       ELSE unit' = [unit EXCEPT !.namespace = namespace \cup {ToPodSpec(c, callID[c])},
                                  !.callPc[c] = "created"]
    /\ UNCHANGED <<pods, reaperVars, lifecycleVars, streamVars>>

\* s.k8sClient.GetRunnerPod(ctx, runnerID) and PodToRunner: the identifier
\* returned is the pod's annotation.  The read is a cluster call of its own
\* and may fail; CreateRunner then returns ErrKubernetesAPI and does nothing
\* about the pod it has created.
CreateRunnerGet(c) ==
    /\ callPc[c] = "created"
    /\ \/ unit' = [unit EXCEPT
                      !.callRet[c] =
                         IF \E p \in namespace : p.name = PodName(callID[c])
                         THEN [err |-> "nil",
                               id |-> (CHOOSE p \in namespace : p.name = PodName(callID[c])).runnerID,
                               clusterErr |-> "nil"]
                         ELSE [err |-> "ErrKubernetesAPI", id |-> None,
                               clusterErr |-> "NotFound"],
                      !.callPc[c] = "returned"]
       \/ unit' = [unit EXCEPT
                      !.callRet[c] = [err |-> "ErrKubernetesAPI", id |-> None,
                                      clusterErr |-> "Unavailable"],
                      !.callPc[c] = "returned"]
    /\ UNCHANGED <<pods, reaperVars, lifecycleVars, streamVars>>

\* The pod a call created, while it is in the namespace.
PodOf(c) == CHOOSE p \in namespace : p.uid = c

\* A client's DeleteRunner on the pod call c created: the finalizer is
\* removed and the deletion requested; the pod stays visible while it
\* terminates.
DeleteRunnerPod(c) ==
    /\ \E p \in namespace : p.uid = c
    /\ ~PodOf(c).deleting
    /\ unit' = [unit EXCEPT !.namespace =
                   (namespace \ {PodOf(c)})
                       \cup {[PodOf(c) EXCEPT !.finalizer = FALSE, !.deleting = TRUE]}]
    /\ UNCHANGED <<pods, reaperVars, lifecycleVars, streamVars>>

\* The cluster removes a terminated pod; its name is free again.
NamespacePodRemoved(c) ==
    /\ \E p \in namespace : p.uid = c
    /\ PodOf(c).deleting /\ ~PodOf(c).finalizer
    /\ unit' = [unit EXCEPT !.namespace = namespace \ {PodOf(c)}]
    /\ UNCHANGED <<pods, reaperVars, lifecycleVars, streamVars>>

NotReturned == [err |-> "none", id |-> None, clusterErr |-> "nil"]

\* An empty namespace, no caller has started.
InitCreate ==
    /\ pods = [id \in RunnerIds |-> NoPod]
    /\ req = [runnerId |-> 1, command |-> "cmd", timeout |-> 0]
    /\ budget = 0
    /\ StreamIdle
    /\ ReaperIdle
    /\ unit = [namespace |-> {},
               callPc |-> [c \in Callers |-> "idle"],
               callID |-> [c \in Callers |-> None],
               callRet |-> [c \in Callers |-> NotReturned]]

\* Parallel CreateRunner calls against an empty namespace, nothing else.
NextRace ==
    \/ \E c \in Callers : CreateRunnerGenerate(c)
    \/ \E c \in Callers : CreateRunnerPod(c)
    \/ \E c \in Callers : CreateRunnerGet(c)

SpecRace == InitCreate /\ [][NextRace]_vars

\* The same calls with DeleteRunner calls among them.
NextCreate ==
    \/ \E c \in Callers : CreateRunnerGenerate(c)
    \/ \E c \in Callers : CreateRunnerPod(c)
    \/ \E c \in Callers : CreateRunnerGet(c)
    \/ \E c \in Callers : DeleteRunnerPod(c)
    \/ \E c \in Callers : NamespacePodRemoved(c)

SpecCreate == InitCreate /\ [][NextCreate]_vars

\* ------------------------------------- pod snapshot -> runner state
\* corev1.PodPhase values, the empty phase of a pod not yet reported included.
PodPhases == {"Pending", "Running", "Succeeded", "Failed", "Unknown", ""}
PodConditions ==
    {[type |-> t, status |-> st] :
        t \in {"Ready", "ContainersReady"}, st \in {"True", "False", "Unknown"}}
\* grad.io/status is written once, as "creating"; a pod of other origin has
\* none.
StatusAnnotations == {"creating", ""}
Snapshots ==
    {[phase |-> ph, conditions |-> cs, statusAnnotation |-> a] :
        ph \in PodPhases, cs \in SeqsUpTo(PodConditions, MaxConditions),
        a \in StatusAnnotations}

\* MapPodStatusToRunnerStatus applied to the snapshot.
MapPodStatus ==
    /\ mapped = "none"
    /\ unit' = [unit EXCEPT !.mapped = MapPodStatusToRunnerStatus(snapshot)]
    /\ UNCHANGED <<pods, reaperVars, lifecycleVars, streamVars>>

\* return PodToRunner(pod) at the end of CreateRunner and of GetRunner; the
\* projection ExecuteCommandStream checks before it executes.
Project(op) ==
    /\ op \in {"CreateRunner", "GetRunner", "ExecuteCommandStream"}
    /\ runnerStatus[op] = "none"
    /\ unit' = [unit EXCEPT !.runnerStatus[op] = PodToRunnerStatus(snapshot)]
    /\ UNCHANGED <<pods, reaperVars, lifecycleVars, streamVars>>

\* ListRunners over a listing that holds the snapshot: the runner is
\* projected, then kept unless a status filter excludes it.
ListRunners(status) ==
    /\ runnerStatus["ListRunners"] = "none"
    /\ unit' = [unit EXCEPT !.runnerStatus["ListRunners"] =
                                IF status # "" /\ PodToRunnerStatus(snapshot) # status
                                THEN "filtered"
                                ELSE PodToRunnerStatus(snapshot)]
    /\ UNCHANGED <<pods, reaperVars, lifecycleVars, streamVars>>

InitProject ==
    /\ pods = [id \in RunnerIds |-> NoPod]
    /\ req = [runnerId |-> 1, command |-> "cmd", timeout |-> 0]
    /\ budget = 0
    /\ StreamIdle
    /\ ReaperIdle
    /\ \E pod \in Snapshots :
          unit = [snapshot |-> pod, mapped |-> "none",
                  runnerStatus |-> [op \in Projections |-> "none"]]

NextProject ==
    \/ MapPodStatus
    \/ \E op \in Projections : Project(op)
    \/ \E status \in {"", "creating", "running"} : ListRunners(status)

SpecProject == InitProject /\ [][NextProject]_vars

\* ------------------------------------- concurrent DeleteRunner calls
\* The runner every call of this part names.
Target == 1

\* GetRunnerPod at the head of DeleteRunner: a missing pod ends the call
\* with ErrRunnerNotFound.
DeleteRunnerFetch(d) ==
    /\ delPc[d] = "idle"
    /\ IF pods[Target].exists
       THEN unit' = [unit EXCEPT !.delPc[d] = "fetched"]
       ELSE unit' = [unit EXCEPT !.delPc[d] = "returned",
                                  !.delRet[d] = "ErrRunnerNotFound"]
    /\ UNCHANGED <<pods, reaperVars, lifecycleVars, streamVars>>

\* RemoveRunnerFinalizer(ctx, pod.Name): it fetches the pod again, and any
\* error, the pod's absence or a failed Update included, comes back wrapped
\* in ErrKubernetesAPI.
DeleteRunnerRemoveFinalizer(d) ==
    /\ delPc[d] = "fetched"
    /\ \/ /\ pods[Target].exists
          /\ pods' = [pods EXCEPT ![Target].finalizer = FALSE]
          /\ unit' = [unit EXCEPT !.delPc[d] = "unfinalized"]
       \/ /\ unit' = [unit EXCEPT !.delPc[d] = "returned",
                                   !.delRet[d] = "ErrKubernetesAPI"]
          /\ UNCHANGED pods
    /\ UNCHANGED <<reaperVars, lifecycleVars, streamVars>>

\* DeleteRunnerPod(ctx, runnerID): a not-found answer is let through, the
\* call returns nil; any other error comes back wrapped in ErrKubernetesAPI.
DeleteRunnerDelete(d) ==
    /\ delPc[d] = "unfinalized"
    /\ \/ /\ pods' = IF pods[Target].exists
                      THEN [pods EXCEPT ![Target].deleting = TRUE]
                      ELSE pods
          /\ unit' = [unit EXCEPT !.delPc[d] = "returned", !.delRet[d] = "nil"]
       \/ /\ unit' = [unit EXCEPT !.delPc[d] = "returned",
                                   !.delRet[d] = "ErrKubernetesAPI"]
          /\ UNCHANGED pods
    /\ UNCHANGED <<reaperVars, lifecycleVars, streamVars>>

\* Some DeleteRunner call returned nil and the pod is gone from the cluster.
DeletedAndGone == (\E d \in Deleters : delRet[d] = "nil") /\ ~pods[Target].exists

\* A client's GetRunner on the runner.
ObserveGetRunner ==
    /\ \E status \in GetRunner(Target) :
         unit' = [unit EXCEPT !.observed = [status |-> status, deleted |-> DeletedAndGone]]
    /\ unit' # unit
    /\ UNCHANGED <<pods, reaperVars, lifecycleVars, streamVars>>

InitDelete ==
    /\ pods = [id \in RunnerIds |-> NoPod]
    /\ req = [runnerId |-> 1, command |-> "cmd", timeout |-> 0]
    /\ budget = 0
    /\ StreamIdle
    /\ ReaperIdle
    /\ unit = [delPc |-> [d \in Deleters |-> "idle"],
               delRet |-> [d \in Deleters |-> "none"],
               observed |-> [status |-> "none", deleted |-> FALSE]]

NextDelete ==
    \/ CreateRunner
    \/ \E id \in RunnerIds : PodReady(id)
    \/ \E id \in RunnerIds : PodRemoved(id)
    \/ \E d \in Deleters : DeleteRunnerFetch(d)
    \/ \E d \in Deleters : DeleteRunnerRemoveFinalizer(d)
    \/ \E d \in Deleters : DeleteRunnerDelete(d)
    \/ ObserveGetRunner

SpecDelete == InitDelete /\ [][NextDelete]_vars

\* ------------------------------------- Server.mapServiceError
\* The kinds of types.go, and errors that are none of them.
ErrorKinds ==
    {"ErrRunnerNotFound", "ErrRunnerNotRunning", "ErrInvalidRequest",
     "ErrResourceConflict", "ErrKubernetesAPI", "ErrCommandExecution"}
OtherErrors == {"context.Canceled", "io.EOF"}
Wrappers == {"wrap: failed to", "wrap: "}
ServiceErrors ==
    {w \o <<e>> : w \in SeqsUpTo(Wrappers, MaxWrap), e \in ErrorKinds \cup OtherErrors}

\* return nil, s.mapServiceError(err)
MapServiceError ==
    /\ grpcCode = "none"
    /\ unit' = [unit EXCEPT !.grpcCode = mapServiceErrorChain(svcErr)]
    /\ UNCHANGED <<pods, reaperVars, lifecycleVars, streamVars>>

InitMapError ==
    /\ pods = [id \in RunnerIds |-> NoPod]
    /\ req = [runnerId |-> 1, command |-> "cmd", timeout |-> 0]
    /\ budget = 0
    /\ StreamIdle
    /\ ReaperIdle
    /\ \E e \in ServiceErrors : unit = [svcErr |-> e, grpcCode |-> "none"]

NextMapError == MapServiceError

SpecMapError == InitMapError /\ [][NextMapError]_vars

\* ------------------------------------- runnerService.ListRunners: pagination
\* int32 addition of two non-negative int32 values: the sum wraps.
Add32(a, b) ==
    IF a > MaxInt32 - b
    THEN (a - (MaxInt32 - b) - 1) + (0 - MaxInt32 - 1)
    ELSE a + b

\* The slice runners[lo:hi] of a list of n runners, by its positions
\* (0-based, hi excluded); Go panics unless 0 <= lo <= hi <= n.
Slice(n, lo, hi) ==
    IF 0 <= lo /\ lo <= hi /\ hi <= n
    THEN [lo |-> lo, hi |-> hi, panic |-> FALSE]
    ELSE [lo |-> 0, hi |-> 0, panic |-> TRUE]

\* ListRunners from "Apply pagination" on, for n filtered runners.
Paginate(n, offset, limit) ==
    LET total == n
        lim == IF limit = 0 THEN DefaultLimit ELSE limit
        end == Add32(offset, lim)
        page == IF offset >= total THEN Slice(0, 0, 0)
                ELSE Slice(n, offset, IF end > total THEN total ELSE end)
    IN [total |-> total, lo |-> page.lo, hi |-> page.hi, panic |-> page.panic,
        returned |-> TRUE]

\* Sizes of the filtered list, and offsets and limits the request surface
\* lets through (non-negative int32).
ListSizes == {0, 1, 2, DefaultLimit - 1, DefaultLimit, DefaultLimit + 1, DefaultLimit + 10}
PageArgs == {0, 1, 2, DefaultLimit, DefaultLimit + 1, MaxInt32 - 1, MaxInt32}

NotPaged == [total |-> 0, lo |-> 0, hi |-> 0, panic |-> FALSE, returned |-> FALSE]

ListRunnersPage ==
    /\ ~pageOut.returned
    /\ unit' = [unit EXCEPT !.pageOut = Paginate(pageIn.n, pageIn.offset, pageIn.limit)]
    /\ UNCHANGED <<pods, reaperVars, lifecycleVars, streamVars>>

InitPage ==
    /\ pods = [id \in RunnerIds |-> NoPod]
    /\ req = [runnerId |-> 1, command |-> "cmd", timeout |-> 0]
    /\ budget = 0
    /\ StreamIdle
    /\ ReaperIdle
    /\ \E n \in ListSizes, offset \in PageArgs, limit \in PageArgs :
          unit = [pageIn |-> [n |-> n, offset |-> offset, limit |-> limit],
                  pageOut |-> NotPaged]

NextPage == ListRunnersPage

SpecPage == InitPage /\ [][NextPage]_vars

\* ------------------------------------------------- render and project
\* RunnerSpecPreset.Small.
Small == [CPU |-> "2000m", Memory |-> "2Gi", Storage |-> "40Gi",
          CPUMillicores |-> 2000, MemoryMB |-> 2048, StorageGB |-> 40]

\* resource.MustParse on the quantity strings the pod carries: a number and
\* its suffix.
MustParse(str) ==
    CASE str = "2000m" -> [n |-> 2000, suffix |-> "m"]
      [] str = "50m" -> [n |-> 50, suffix |-> "m"]
      [] str = "100m" -> [n |-> 100, suffix |-> "m"]
      [] str = "2Gi" -> [n |-> 2, suffix |-> "Gi"]
      [] str = "64Mi" -> [n |-> 64, suffix |-> "Mi"]
      [] str = "128Mi" -> [n |-> 128, suffix |-> "Mi"]
      [] str = "40Gi" -> [n |-> 40, suffix |-> "Gi"]

\* The zero quantity a ResourceList accessor returns for an absent resource.
ZeroQuantity == [n |-> 0, suffix |-> ""]

\* Quantity.MilliValue.
MilliValue(q) ==
    CASE q.suffix = "m" -> q.n
      [] q.suffix = "" -> q.n * 1000
      [] q.suffix = "Mi" -> q.n * 1024 * 1024 * 1000
      [] q.suffix = "Gi" -> q.n * 1024 * 1024 * 1024 * 1000

\* Quantity.Value() / (1024 * 1024).
ValueMiB(q) ==
    CASE q.suffix = "Gi" -> q.n * 1024
      [] q.suffix = "Mi" -> q.n
      [] OTHER -> 0

\* Quantity.Value() / (1024 * 1024 * 1024).
ValueGiB(q) ==
    CASE q.suffix = "Gi" -> q.n
      [] OTHER -> 0

\* The request a client may send to CreateRunner.
EnvKeys == {"TEST_ENV", "AWS_ACCESS_KEY_ID", "RUNNER_ID"}
EnvValues == {"x", "y"}
EnvMaps == UNION {[S -> EnvValues] : S \in SUBSET EnvKeys}
CreateIds == {"runner-1", "runner-2"}
CreateNames == {"", "test-runner", "runner-2"}

\* The runner object CreateRunner builds before the pod is created.
BuildRunner(id, name, env) ==
    [ID |-> id,
     Name |-> IF name = "" THEN id ELSE name,
     Resources |-> [CPUMillicores |-> Small.CPUMillicores,
                    MemoryMB |-> Small.MemoryMB,
                    StorageGB |-> Small.StorageGB],
     Env |-> env]

\* The orders in which a range over a map with these keys may visit them.
Orders(S) ==
    {o \in [1..Cardinality(S) -> S] : \A i, j \in DOMAIN o : o[i] = o[j] => i = j}

AwsKeys == {"AWS_ACCESS_KEY_ID", "AWS_SECRET_ACCESS_KEY", "AWS_SESSION_TOKEN"}

\* BuildPodCreationRequest and ToPodSpec for a runner without a workspace:
\* annotations, and the two containers in the order of the Containers list.
RenderPod(r, mainOrder, s3fsOrder) ==
    LET fixed == <<[name |-> "RUNNER_ID", value |-> r.ID],
                   [name |-> "RUNNER_NAME", value |-> r.Name]>>
        mainEnv == fixed \o [i \in DOMAIN mainOrder |->
                       [name |-> mainOrder[i], value |-> r.Env[mainOrder[i]]]]
        s3fsEnv == fixed \o [i \in DOMAIN s3fsOrder |->
                       [name |-> s3fsOrder[i], value |-> r.Env[s3fsOrder[i]]]]
    IN [annotations |-> [id |-> r.ID, name |-> r.Name, status |-> "creating"],
        containers |->
          <<[name |-> "s3fs-sidecar",
             requests |-> [cpu |-> MustParse("50m"), memory |-> MustParse("64Mi")],
             limits |-> [cpu |-> MustParse("100m"), memory |-> MustParse("128Mi")],
             env |-> s3fsEnv],
            [name |-> "runner",
             requests |-> [cpu |-> MustParse(Small.CPU), memory |-> MustParse(Small.Memory)],
             limits |-> [cpu |-> MustParse(Small.CPU), memory |-> MustParse(Small.Memory)],
             env |-> mainEnv]>>]

\* The loop of PodToRunner over a container's env list: a later entry of
\* the same name overwrites an earlier one.
RECURSIVE EnvOf(_)
EnvOf(list) ==
    IF list = <<>> THEN [k \in {} |-> ""]
    ELSE LET m == EnvOf(SubSeq(list, 1, Len(list) - 1))
             last == list[Len(list)]
         IN [k \in DOMAIN m \cup {last.name} |->
                IF k = last.name THEN last.value ELSE m[k]]

\* A ResourceList accessor: the quantity, or zero when the key is absent.
Requested(requests, key) ==
    IF key \in DOMAIN requests THEN requests[key] ELSE ZeroQuantity

\* PodToRunner: identifier, name, resources and environment.
PodToRunner(pod) ==
    LET container == pod.containers[1]
    IN [ID |-> pod.annotations.id,
        Name |-> pod.annotations.name,
        Resources |->
            [CPUMillicores |-> MilliValue(Requested(container.requests, "cpu")),
             MemoryMB |-> ValueMiB(Requested(container.requests, "memory")),
             StorageGB |-> ValueGiB(Requested(container.requests, "ephemeral-storage"))],
        Env |-> EnvOf(container.env)]

ToPodSpecStep ==
    /\ rtPc = "built"
    /\ \E mainOrder \in Orders(DOMAIN rtRunner.Env),
          s3fsOrder \in Orders(DOMAIN rtRunner.Env \cap AwsKeys) :
          unit' = [unit EXCEPT !.rtPc = "rendered",
                               !.rtPod = RenderPod(rtRunner, mainOrder, s3fsOrder)]
    /\ UNCHANGED <<pods, reaperVars, lifecycleVars, streamVars>>

PodToRunnerStep ==
    /\ rtPc = "rendered"
    /\ unit' = [unit EXCEPT !.rtPc = "projected",
                            !.rtProjected = PodToRunner(rtPod)]
    /\ UNCHANGED <<pods, reaperVars, lifecycleVars, streamVars>>

InitRoundTrip ==
    /\ pods = [id \in RunnerIds |-> NoPod]
    /\ req = [runnerId |-> 1, command |-> "cmd", timeout |-> 0]
    /\ budget = 0
    /\ StreamIdle
    /\ ReaperIdle
    /\ \E id \in CreateIds, name \in CreateNames, env \in EnvMaps :
          unit = [rtPc |-> "built",
                  rtRunner |-> BuildRunner(id, name, env),
                  rtPod |-> None,
                  rtProjected |-> None]

NextRoundTrip == ToPodSpecStep \/ PodToRunnerStep

SpecRoundTrip == InitRoundTrip /\ [][NextRoundTrip]_vars

\* ------------------------------------------------- ExecuteCommand (auto-provision)
\* The wait of ExecuteCommand, in ticks of its one-second ticker.
WaitSeconds == 120

\* One call of executeService.ExecuteCommand. pc is the position in the
\* function; listed, created, target, observedRunning, observedTerminal and
\* execInvoked record what the call has done; clock counts the seconds since
\* waitCtx was made and tickPending is the ticker's buffered tick; existing
\* says whether a RUNNING runner is in the cluster, status is the state of
\* the provisioned runner and runningAt the clock when it became RUNNING.
AutoStart(existing) ==
    [pc |-> "list", ret |-> "none", listed |-> "none", created |-> 0,
     target |-> "none", observedRunning |-> FALSE, observedTerminal |-> FALSE,
     execInvoked |-> FALSE, clock |-> 0, tickPending |-> FALSE,
     existing |-> existing, status |-> "none", runningAt |-> -1]

AutoFrame == UNCHANGED <<pods, reaperVars, lifecycleVars, streamVars>>

\* ListRunners(Status: RUNNING, Limit: 10) and the branch on its result.
ExecuteCommandList ==
    /\ auto.pc = "list"
    /\ \/ unit' = [unit EXCEPT !.auto.pc = "done", !.auto.ret = "error",
                                !.auto.listed = "error"]
       \/ /\ auto.existing
          /\ unit' = [unit EXCEPT !.auto.pc = "exec", !.auto.listed = "one",
                                   !.auto.target = "listed",
                                   !.auto.observedRunning = TRUE]
       \/ /\ ~auto.existing
          /\ unit' = [unit EXCEPT !.auto.pc = "create", !.auto.listed = "empty"]
    /\ AutoFrame

\* CreateRunner, then waitCtx and the ticker are made.
ExecuteCommandCreate ==
    /\ auto.pc = "create"
    /\ \/ unit' = [unit EXCEPT !.auto.pc = "done", !.auto.ret = "error",
                                !.auto.created = @ + 1]
       \/ unit' = [unit EXCEPT !.auto.pc = "select", !.auto.created = @ + 1,
                                !.auto.target = "provisioned",
                                !.auto.status = "creating"]
    /\ AutoFrame

\* A second passes: the ticker fires into its one-slot channel.
WaitTick ==
    /\ auto.pc \in {"select", "poll"}
    /\ auto.clock <= WaitSeconds
    /\ unit' = [unit EXCEPT !.auto.clock = @ + 1, !.auto.tickPending = TRUE]
    /\ AutoFrame

\* case <-waitCtx.Done()
WaitSelectDone ==
    /\ auto.pc = "select"
    /\ auto.clock >= WaitSeconds
    /\ unit' = [unit EXCEPT !.auto.pc = "done", !.auto.ret = "error"]
    /\ AutoFrame

\* case <-ticker.C
WaitSelectTicker ==
    /\ auto.pc = "select"
    /\ auto.tickPending
    /\ unit' = [unit EXCEPT !.auto.pc = "poll", !.auto.tickPending = FALSE]
    /\ AutoFrame

\* GetRunner(ctx, runnerID) and the branch on the status it returns.
ExecuteCommandPoll ==
    /\ auto.pc = "poll"
    /\ unit' =
         CASE auto.status = "running" ->
                [unit EXCEPT !.auto.pc = "exec", !.auto.observedRunning = TRUE]
           [] auto.status \in {"stopped", "error"} ->
                [unit EXCEPT !.auto.pc = "done", !.auto.ret = "error",
                             !.auto.observedTerminal = TRUE]
           [] auto.status = "gone" ->
                [unit EXCEPT !.auto.pc = "done", !.auto.ret = "error"]
           [] OTHER -> [unit EXCEPT !.auto.pc = "select"]
    /\ AutoFrame

\* return s.runnerService.ExecuteCommandStream(ctx, execReq, ...)
ExecuteCommandExec ==
    /\ auto.pc = "exec"
    /\ unit' = [unit EXCEPT !.auto.pc = "done", !.auto.ret = "exec",
                            !.auto.execInvoked = TRUE]
    /\ AutoFrame

\* The cluster: the provisioned pod becomes ready, fails, or is deleted.
AutoPodReady ==
    /\ auto.status = "creating"
    /\ auto.pc # "done"
    /\ unit' = [unit EXCEPT !.auto.status = "running",
                            !.auto.runningAt = auto.clock]
    /\ AutoFrame

AutoPodExit(phase) ==
    /\ auto.status \in {"creating", "running"}
    /\ auto.pc # "done"
    /\ unit' = [unit EXCEPT !.auto.status = phase]
    /\ AutoFrame

InitAuto ==
    /\ pods = [id \in RunnerIds |-> NoPod]
    /\ req = [runnerId |-> 1, command |-> "cmd", timeout |-> 0]
    /\ budget = 0
    /\ StreamIdle
    /\ ReaperIdle
    /\ \E existing \in BOOLEAN : unit = [auto |-> AutoStart(existing)]

NextAuto ==
    \/ ExecuteCommandList
    \/ ExecuteCommandCreate
    \/ WaitTick
    \/ WaitSelectDone
    \/ WaitSelectTicker
    \/ ExecuteCommandPoll
    \/ ExecuteCommandExec
    \/ AutoPodReady
    \/ \E phase \in {"stopped", "error", "gone"} : AutoPodExit(phase)

SpecAuto == InitAuto /\ [][NextAuto]_vars

\* ------------------------------------------------- ActivityTracker
\* The zero time.Time, the value a Go map gives for a missing key; the
\* process clock starts after it.
ZeroTime == 0
TrackedIds == 1..MaxPods
Instants == 1..MaxNow
Windows == 0..(MaxNow - 1)

\* at.lastActiveTimes[runnerID] = now, on a map of instants.
UpdateLastActiveTimeAt(m, id, t) ==
    [x \in DOMAIN m \cup {id} |-> IF x = id THEN t ELSE m[x]]

\* return at.lastActiveTimes[runnerID]
GetLastActiveTime(m, id) == IF id \in DOMAIN m THEN m[id] ELSE ZeroTime

GetInactiveRunnersAt_AtLeast(m, inactiveDuration, t) ==
    {x \in DOMAIN m : t - m[x] >= inactiveDuration}

\* The loop of GetInactiveRunners: inactiveFor := now.Sub(lastActive),
\* kept when inactiveFor > inactiveDuration.
GetInactiveRunnersAt(m, inactiveDuration, t) ==
    {x \in DOMAIN m : t - m[x] > inactiveDuration}

NoAnswer == [op |-> "none", arg |-> 0, ids |-> {}, time |-> ZeroTime]

TrackerFrame == UNCHANGED <<pods, reaperVars, lifecycleVars, streamVars>>

TrackerUpdate(id) ==
    /\ unit' = [unit EXCEPT !.tracker = UpdateLastActiveTimeAt(tracker, id, now),
                            !.touchedAt[id] = now,
                            !.answer = NoAnswer]
    /\ TrackerFrame

TrackerRemove(id) ==
    /\ unit' = [unit EXCEPT !.tracker = RemoveRunner(tracker, id),
                            !.touchedAt[id] = ZeroTime,
                            !.answer = NoAnswer]
    /\ TrackerFrame

TrackerGetLastActiveTime(id) ==
    /\ unit' = [unit EXCEPT !.answer = [op |-> "get", arg |-> id, ids |-> {},
                                        time |-> GetLastActiveTime(tracker, id)]]
    /\ TrackerFrame

TrackerGetInactiveRunners(w) ==
    /\ unit' = [unit EXCEPT !.answer = [op |-> "inactive", arg |-> w,
                                        ids |-> GetInactiveRunnersAt(tracker, w, now),
                                        time |-> ZeroTime]]
    /\ TrackerFrame

\* Time passes.
TrackerClock ==
    /\ now < MaxNow
    /\ unit' = [unit EXCEPT !.now = @ + 1, !.answer = NoAnswer]
    /\ TrackerFrame

InitTracker ==
    /\ pods = [id \in RunnerIds |-> NoPod]
    /\ req = [runnerId |-> 1, command |-> "cmd", timeout |-> 0]
    /\ budget = 0
    /\ StreamIdle
    /\ ReaperIdle
    /\ unit = [tracker |-> EmptyTracker, now |-> 1,
               touchedAt |-> [id \in TrackedIds |-> ZeroTime],
               answer |-> NoAnswer]

NextTracker ==
    \/ \E id \in TrackedIds : TrackerUpdate(id)
    \/ \E id \in TrackedIds : TrackerRemove(id)
    \/ \E id \in TrackedIds : TrackerGetLastActiveTime(id)
    \/ \E w \in Windows : TrackerGetInactiveRunners(w)
    \/ TrackerClock

SpecTracker == InitTracker /\ [][NextTracker]_vars

\* ------------------------------------------------- ActivityTracker under its lock
Goroutines == 1..MaxGoroutines
ScanWindow == 1

\* The calls a goroutine may make on the tracker.
TrackerOps ==
    [op : {"UpdateLastActiveTime", "RemoveRunner", "GetLastActiveTime"}, arg : {1, 2}]
        \cup {[op |-> "GetInactiveRunners", arg |-> ScanWindow],
               [op |-> "GetAllTrackedRunners", arg |-> 0]}

IsWrite(op) == op \in {"UpdateLastActiveTime", "RemoveRunner"}
IsScan(op) == op \in {"GetInactiveRunners", "GetAllTrackedRunners"}

\* What the call returns when its whole body runs on the map m at time t.
\* A write returns nothing.
Whole(c, m, t) ==
    CASE c.op = "GetLastActiveTime" -> {GetLastActiveTime(m, c.arg)}
      [] c.op = "GetInactiveRunners" -> GetInactiveRunnersAt(m, c.arg, t)
      [] c.op = "GetAllTrackedRunners" -> DOMAIN m
      [] OTHER -> {}

\* sync.RWMutex: Lock waits for the writer and for every reader.
CanLock_IgnoreReaders(l) == l.writer = 0

CanLock(l) == l.writer = 0 /\ l.readers = {}

\* sync.RWMutex: RLock waits for the writer.
CanRLock(l) == l.writer = 0

IdleCall ==
    [pc |-> "idle", op |-> "none", arg |-> 0, todo |-> {}, ret |-> {}, views |-> {}]

MutexFrame == UNCHANGED <<pods, reaperVars, lifecycleVars, streamVars>>

\* A goroutine calls a method of the tracker.
TrackerCall(g) ==
    /\ calls[g].pc = "idle"
    /\ \E c \in TrackerOps :
          unit' = [unit EXCEPT !.calls[g] =
                      [pc |-> "lock", op |-> c.op, arg |-> c.arg, todo |-> {},
                       ret |-> {}, views |-> {Whole(c, tracker, now)}]]
    /\ MutexFrame

\* at.mu.Lock() or at.mu.RLock(); a range loop starts over the map's keys.
TrackerLock(g) ==
    /\ calls[g].pc = "lock"
    /\ IF IsWrite(calls[g].op)
       THEN /\ CanLock(mu)
            /\ unit' = [unit EXCEPT !.mu.writer = g, !.calls[g].pc = "body"]
       ELSE /\ CanRLock(mu)
            /\ unit' = [unit EXCEPT !.mu.readers = @ \cup {g},
                                    !.calls[g].pc = "body",
                                    !.calls[g].todo = DOMAIN tracker]
    /\ MutexFrame

\* The views of the pending calls after the map became m.
Viewed(m, writer) ==
    [g \in Goroutines |->
        IF g # writer /\ calls[g].pc \in {"lock", "body", "unlock"}
        THEN [calls[g] EXCEPT !.views = @ \cup {Whole(calls[g], m, now)}]
        ELSE calls[g]]

\* The body of UpdateLastActiveTime or RemoveRunner: one write of the map.
TrackerWrite(g) ==
    /\ calls[g].pc = "body"
    /\ IsWrite(calls[g].op)
    /\ LET m == IF calls[g].op = "UpdateLastActiveTime"
                 THEN UpdateLastActiveTimeAt(tracker, calls[g].arg, now)
                 ELSE RemoveRunner(tracker, calls[g].arg)
       IN unit' = [unit EXCEPT !.tracker = m,
                               !.calls = [Viewed(m, g) EXCEPT ![g].pc = "unlock"]]
    /\ MutexFrame

\* The body of GetLastActiveTime: one read of the map.
TrackerRead(g) ==
    /\ calls[g].pc = "body"
    /\ calls[g].op = "GetLastActiveTime"
    /\ unit' = [unit EXCEPT !.calls[g].pc = "unlock",
                            !.calls[g].ret = {GetLastActiveTime(tracker, calls[g].arg)}]
    /\ MutexFrame

\* One iteration of the range loop of GetInactiveRunners or
\* GetAllTrackedRunners, or its end.
TrackerScan(g) ==
    /\ calls[g].pc = "body"
    /\ IsScan(calls[g].op)
    /\ IF calls[g].todo = {}
       THEN unit' = [unit EXCEPT !.calls[g].pc = "unlock"]
       ELSE \E x \in calls[g].todo :
              LET kept == /\ x \in DOMAIN tracker
                          /\ \/ calls[g].op = "GetAllTrackedRunners"
                             \/ now - tracker[x] > calls[g].arg
              IN unit' = [unit EXCEPT
                            !.calls[g].todo = @ \ {x},
                            !.calls[g].ret = IF kept THEN @ \cup {x} ELSE @]
    /\ MutexFrame

\* defer at.mu.Unlock() or at.mu.RUnlock(): the call returns.
TrackerUnlock(g) ==
    /\ calls[g].pc = "unlock"
    /\ unit' = [unit EXCEPT !.mu = [writer |-> IF mu.writer = g THEN 0 ELSE mu.writer,
                                    readers |-> mu.readers \ {g}],
                            !.calls[g].pc = "done"]
    /\ MutexFrame

InitMutex ==
    /\ pods = [id \in RunnerIds |-> NoPod]
    /\ req = [runnerId |-> 1, command |-> "cmd", timeout |-> 0]
    /\ budget = 0
    /\ StreamIdle
    /\ ReaperIdle
    /\ unit = [tracker |-> [id \in {1, 2} |-> 1], now |-> MaxNow,
               mu |-> [writer |-> 0, readers |-> {}],
               calls |-> [g \in Goroutines |-> IdleCall]]

NextMutex ==
    \/ \E g \in Goroutines : TrackerCall(g)
    \/ \E g \in Goroutines : TrackerLock(g)
    \/ \E g \in Goroutines : TrackerWrite(g)
    \/ \E g \in Goroutines : TrackerRead(g)
    \/ \E g \in Goroutines : TrackerScan(g)
    \/ \E g \in Goroutines : TrackerUnlock(g)

SpecMutex == InitMutex /\ [][NextMutex]_vars

\* ------------------------------------------------- who writes the tracker
\* The service and the reaper as they use the ActivityTracker: runnerService
\* holds only the cluster client, CleanupService holds the tracker.
NoOp == [op |-> "none", id |-> EmptyId, started |-> FALSE]

TouchFrame == UNCHANGED <<pods, reaperVars, lifecycleVars, streamVars>>

Called(op, id, started) == [op |-> op, id |-> id, started |-> started]

\* runnerService.CreateRunner: a pod is created; the tracker is not used.
ServiceCreateRunner(id) ==
    /\ cluster[id] = "absent"
    /\ unit' = [unit EXCEPT !.cluster[id] = "creating",
                            !.lastOp = Called("CreateRunner", id, FALSE)]
    /\ TouchFrame

\* The pod becomes ready.
ServicePodReady(id) ==
    /\ cluster[id] = "creating"
    /\ unit' = [unit EXCEPT !.cluster[id] = "running", !.lastOp = NoOp]
    /\ TouchFrame

\* runnerService.GetRunner and ListRunners: reads of the cluster.
ServiceGetRunner(id) ==
    /\ unit' = [unit EXCEPT !.lastOp = Called("GetRunner", id, FALSE)]
    /\ TouchFrame

ServiceListRunners ==
    /\ unit' = [unit EXCEPT !.lastOp = Called("ListRunners", EmptyId, FALSE)]
    /\ TouchFrame

\* runnerService.DeleteRunner: the pod is deleted; the tracker is not used.
ServiceDeleteRunner(id) ==
    /\ cluster[id] # "absent"
    /\ unit' = [unit EXCEPT !.cluster[id] = "absent",
                            !.lastOp = Called("DeleteRunner", id, FALSE)]
    /\ TouchFrame

\* runnerService.ExecuteCommandStream: the pod is fetched, its status is
\* checked, and the gateway is called for a RUNNING runner.
ServiceExecuteCommandStream(id) ==
    /\ unit' = [unit EXCEPT !.lastOp =
                    Called("ExecuteCommandStream", id, cluster[id] = "running")]
    /\ TouchFrame

\* One cycle of CleanupService.cleanupInactiveRunners: the inactive
\* identifiers are scanned; the entry of each is removed when its runner is
\* gone, terminal or deleted, and kept when the delete fails.
ReaperCycle ==
    /\ \E removed \in SUBSET GetInactiveRunnersAt(tracker, ScanWindow, now) :
          unit' = [unit EXCEPT
                     !.tracker = [x \in DOMAIN tracker \ removed |-> tracker[x]],
                     !.cluster = [x \in DOMAIN cluster |->
                                     IF x \in removed THEN "absent" ELSE cluster[x]],
                     !.lastOp = Called("cleanupInactiveRunners", EmptyId, FALSE)]
    /\ TouchFrame

ServiceClock ==
    /\ now < MaxNow
    /\ unit' = [unit EXCEPT !.now = @ + 1, !.lastOp = NoOp]
    /\ TouchFrame

InitTouch ==
    /\ pods = [id \in RunnerIds |-> NoPod]
    /\ req = [runnerId |-> 1, command |-> "cmd", timeout |-> 0]
    /\ budget = 0
    /\ StreamIdle
    /\ ReaperIdle
    /\ unit = [tracker |-> EmptyTracker, now |-> 1,
               cluster |-> [id \in TrackedIds |-> "absent"],
               lastOp |-> NoOp]

NextTouch ==
    \/ \E id \in TrackedIds : ServiceCreateRunner(id)
    \/ \E id \in TrackedIds : ServicePodReady(id)
    \/ \E id \in TrackedIds : ServiceGetRunner(id)
    \/ ServiceListRunners
    \/ \E id \in TrackedIds : ServiceDeleteRunner(id)
    \/ \E id \in TrackedIds : ServiceExecuteCommandStream(id)
    \/ ReaperCycle
    \/ ServiceClock

SpecTouch == InitTouch /\ [][NextTouch]_vars

\* ------------------------------------------------- frames, helpers
ExitFrames == SelectSeq(frames, LAMBDA f : f.type = "EXIT")

\* The data of the frames of one stream, in the order sent.
Delivered(fd) ==
    LET fs == SelectSeq(frames, LAMBDA f : f.type = FrameKind(fd))
    IN [i \in 1..Len(fs) |-> fs[i].data]

\* The chunks of the non-empty lines the command wrote to one stream.
Expected(fd) ==
    LET ls == SelectSeq(written[fd], LAMBDA l : Len(l) > 0)
    IN [i \in 1..Len(ls) |-> Append(ls[i], NL)]

RECURSIVE IsSubseq(_, _)
IsSubseq(a, b) ==
    IF a = <<>> THEN TRUE
    ELSE IF b = <<>> THEN FALSE
    ELSE IF Head(a) = Head(b) THEN IsSubseq(Tail(a), Tail(b))
    ELSE IsSubseq(a, Tail(b))

\* The service call has returned to the producing goroutine.
ServiceReturned == ppc \in {"result", "closeErr", "closeExit", "done"}

\* The block after the main select (the second select) is never entered: a
\* data case leaves its own channel non-nil.
WaitSelectUnreachable == hpc # "wait"

\* ------------------------------------------------------------ claims
\* C1: when the service call returned an exit code without error and the
\* stream was never cancelled, a handler that has returned has sent exactly
\* one EXIT frame, carrying that exit code, and returned OK.
C1_ExitFrameOnSuccess ==
    (hpc = "done" /\ ServiceReturned /\ svcRet.err = "nil" /\ ~cancelled)
        => /\ Len(ExitFrames) = 1
           /\ ExitFrames[1].exitCode = svcRet.code
           /\ hret = "OK"

\* C2: when the service call returned an error, no EXIT frame is ever sent,
\* a handler that returns on a live stream returns the status mapped from
\* that error, and for runner-not-running no frame at all is sent.
C2_NoExitFrameOnError ==
    (ServiceReturned /\ svcRet.err # "nil")
        => /\ ExitFrames = <<>>
           /\ (hpc = "done" /\ ~cancelled => hret = mapServiceError(svcRet.err))
           /\ (svcRet.err = "ErrRunnerNotRunning" => frames = <<>>)

\* C3: the gateway's exec is invoked only for a pod that projects to RUNNING;
\* a pod in any other state gives runner-not-running, a missing pod
\* runner-not-found, and without the exec no reader exists and nothing is
\* written to the stdout/stderr channels.
C3_ExecOnlyWhenRunning ==
    LET id == req.runnerId
        present == id \in RunnerIds /\ pods[id].exists
    IN /\ execInvoked => present /\ MapPodStatusToRunnerStatus(pods[id]) = "running"
       /\ (ServiceReturned /\ ~present)
             => svcRet.err = "ErrRunnerNotFound" /\ ~execInvoked
       /\ (ServiceReturned /\ present /\ fetched # "notfound"
              /\ MapPodStatusToRunnerStatus(pods[id]) # "running")
             => svcRet.err = "ErrRunnerNotRunning" /\ ~execInvoked
       /\ ~execInvoked
             => \A fd \in Fds : produced[fd] = <<>> /\ ch[fd] = <<>> /\ rpc[fd] = "none"

C3_Witness ==
    /\ ppc = "done"
    /\ svcRet.err = "ErrRunnerNotRunning"
    /\ MapPodStatusToRunnerStatus(pods[req.runnerId]) = "creating"
    /\ ~execInvoked

\* C4: when the command exited by itself, the stream was never cancelled and
\* the handler returned OK with its EXIT frame, every non-empty line the
\* command wrote was delivered as a frame of its stream.
C4_NoOutputLost ==
    (hpc = "done" /\ hret = "OK" /\ ~cancelled /\ execInvoked
        /\ cmdState = "exited" /\ cmdExit \in ExitCodes)
        => \A fd \in Fds : Delivered(fd) = Expected(fd)

\* C5: at most one EXIT frame is sent and no frame follows it.
C5_ExitIsLast ==
    /\ Len(ExitFrames) <= 1
    /\ \A i \in 1..Len(frames) : frames[i].type = "EXIT" => i = Len(frames)

C5_Witness ==
    /\ Len(frames) >= 3
    /\ frames[Len(frames)].type = "EXIT"
    /\ hpc = "done"

C7_CancelStopsAll ==
    cancelled ~> /\ hpc = "done"
                 /\ cmdState # "running"
                 /\ \A fd \in Fds : rpc[fd] = "none" \/ (rpc[fd] = "done" /\ chClosed[fd])

C7_Witness ==
    /\ cancelled
    /\ hret = "Canceled"
    /\ cmdExit = -1
    /\ \A fd \in Fds : rpc[fd] = "done" /\ chClosed[fd]

\* C8: once more seconds than the request's timeout have passed, the command
\* is no longer running uncancelled.
C8_TimeoutCancels ==
    elapsed > req.timeout => ~(cmdState = "running" /\ ~CtxDone)

\* C9: a reaper step that fetched a missing, STOPPED or ERROR runner removed
\* its tracker entry and called no DeleteRunner (the cluster is untouched and
\* the loop goes on); the reaper's DeleteRunner call is only made for a runner
\* it has just fetched as CREATING or RUNNING.
C9_ReaperSkipsTerminal ==
    [][/\ (cpc = "loop" /\ cInactive' # cInactive)
            => IF cStatus' \in {"notfound", "stopped", "error"}
               THEN /\ cCur' \notin DOMAIN lastActiveTimes'
                    /\ pods' = pods
                    /\ cpc' = "loop"
               ELSE /\ cpc' = "delete"
                    /\ pods' = pods
       /\ (cpc = "delete" /\ cpc' # "delete")
            => cStatus \in {"creating", "running"}]_vars

C9_Witness ==
    /\ cpc = "loop"
    /\ cStatus = "error"
    /\ cCur \notin DOMAIN lastActiveTimes
    /\ pods[cCur].exists
    /\ pods[cCur].finalizer /\ ~pods[cCur].deleting

\* C10: the reaper's DeleteRunner never takes effect on a runner on which no
\* command has been executed since that runner was created.
C10_NeverReapsUnexercised ==
    [][(cpc = "delete" /\ cpc' = "loop" /\ pods'[cCur] # pods[cCur]) => exercised[cCur]]_vars

\* C11: a step in which the reaper's DeleteRunner call returned is explained by
\* one of the call's outcomes: when it failed, the tracker is unchanged (the
\* entry and its time are kept, and an identifier that was inactive is still
\* in the inactive set, so the next tick retries it); when it succeeded, the
\* identifier's entry is gone in that same step.
C11_FailedDeleteKeepsEntry ==
    [][(cpc = "delete" /\ cpc' = "loop")
          => \E r \in DeleteRunnerResults(cCur) :
                /\ pods' = [pods EXCEPT ![cCur] = r.pod]
                /\ IF r.err = "nil"
                   THEN cCur \notin DOMAIN lastActiveTimes'
                   ELSE /\ lastActiveTimes' = lastActiveTimes
                        /\ cCur \in GetInactiveRunners(lastActiveTimes, InactiveTimeout)
                              => cCur \in GetInactiveRunners(lastActiveTimes', InactiveTimeout)]_vars

\* The delete failed after the finalizer was removed: the pod is still there,
\* not terminating, and the stale entry is kept.
C11_Witness ==
    /\ cpc = "loop"
    /\ cStatus \in {"creating", "running"}
    /\ cCur \in GetInactiveRunners(lastActiveTimes, InactiveTimeout)
    /\ pods[cCur].exists
    /\ ~pods[cCur].finalizer /\ ~pods[cCur].deleting

\* C12: a CREATING or RUNNING runner whose entry is older than the threshold
\* stays due for the reaper until a tick deletes it: its entry is not dropped
\* while the runner is live and undeleted; and a tracked live runner that is
\* not executed on again is eventually gone (or has ended by itself).
C12_IdleRunnerReaped ==
    /\ [][\A id \in RunnerIds :
            (/\ id \in GetInactiveRunners(lastActiveTimes, InactiveTimeout)
             /\ Live(pods[id])
             /\ Live(pods'[id]))
                => id \in DOMAIN lastActiveTimes']_vars
    /\ \A id \in RunnerIds :
          (id \in DOMAIN lastActiveTimes /\ lastActiveTimes[id] > 0 /\ Live(pods[id]))
             ~> \/ ~pods[id].exists
                \/ IsTerminal(MapPodStatusToRunnerStatus(pods[id]))
                \/ (id \in DOMAIN lastActiveTimes /\ lastActiveTimes[id] = 0)

\* C13: every tracked identifier is that of a runner whose pod exists and on
\* which ExecuteCommandStream has been called, so the tracker holds no more
\* entries than there are such runners.
C13_EntriesOfLiveRunners ==
    LET exercisedLive == {id \in RunnerIds : pods[id].exists /\ exercised[id]}
    IN /\ DOMAIN lastActiveTimes \subseteq exercisedLive
       /\ Cardinality(DOMAIN lastActiveTimes) <= Cardinality(exercisedLive)

\* Stop was called or the context passed to Start is cancelled.
Signalled == stopCh = "closed" \/ startCtxDone

\* C14: once Stop was called or Start's context is cancelled, Start's select
\* never takes the ticker case again (no further cleanup cycle begins) and
\* Start eventually returns; the stop channel goes from open to closed only,
\* and no step of Start's goroutine closes it.
C14_StartStopsOnSignal ==
    /\ [][Signalled => ~(cpc = "select" /\ tickPending /\ ~tickPending')]_vars
    /\ Signalled ~> cpc = "returned"
    /\ [][stopCh' # stopCh => stopCh = "open" /\ stopCh' = "closed"]_vars
    /\ [][(cpc \in {"select", "loop", "delete", "stopping"} /\ cpc' # cpc)
             => stopCh' = stopCh]_vars

\* The largest N with some listed pod annotated runner-N, 0 without one.
LargestListed ==
    MaxOf({n \in 1..MaxN :
             \E i \in 1..Len(podList) :
                podList[i].annotated /\ podList[i].runnerID = Sprintf(n)})

C16_UniqueRunnerIDs ==
    \A p \in namespace : \A q \in namespace : p.runnerID = q.runnerID => p = q

\* Two calls raced for one identifier and, a pod deleted and gone, a later
\* call reused a number: two pods are visible.
C16_Witness ==
    /\ Cardinality(namespace) = 2
    /\ \E c \in Callers : callRet[c].clusterErr = "AlreadyExists"
    /\ \E p \in namespace : p.deleting

\* C17: once MaxCallers parallel CreateRunner calls against an empty namespace
\* have returned, all succeeded and the identifiers returned are pairwise
\* distinct and are exactly runner-1 .. runner-MaxCallers.
C17_ParallelCreatesAllSucceed ==
    (\A c \in Callers : callPc[c] = "returned") =>
        /\ \A c \in Callers : callRet[c].err = "nil"
        /\ \A c \in Callers : \A d \in Callers : callRet[c].id = callRet[d].id => c = d
        /\ {callRet[c].id : c \in Callers} = {Sprintf(n) : n \in 1..MaxCallers}

\* C18: a CreateRunner call whose pod creation the cluster rejected because
\* the name exists fails with ErrResourceConflict, which the request surface
\* maps to ALREADY_EXISTS.
C18_CollisionIsResourceConflict ==
    \A c \in Callers :
        (callPc[c] = "returned" /\ callRet[c].clusterErr = "AlreadyExists") =>
            /\ callRet[c].err = "ErrResourceConflict"
            /\ mapServiceError(callRet[c].err) = "AlreadyExists"

\* Some condition of the snapshot has type Ready and status True.
HasReadyTrue ==
    \E i \in 1..Len(snapshot.conditions) :
        snapshot.conditions[i] = [type |-> "Ready", status |-> "True"]

\* C19: MapPodStatusToRunnerStatus answers for every phase and condition
\* list: Pending gives CREATING; Running gives RUNNING with a Ready condition
\* of status True and CREATING without; Succeeded gives STOPPED; Failed and
\* every other phase, empty and Unknown included, give ERROR; never
\* UNSPECIFIED, never STOPPING.
C19_MappingTable ==
    mapped # "none" =>
        /\ mapped \in {"creating", "running", "stopped", "error"}
        /\ snapshot.phase = "Pending" => mapped = "creating"
        /\ (snapshot.phase = "Running" /\ HasReadyTrue) => mapped = "running"
        /\ (snapshot.phase = "Running" /\ ~HasReadyTrue) => mapped = "creating"
        /\ snapshot.phase = "Succeeded" => mapped = "stopped"
        /\ snapshot.phase = "Failed" => mapped = "error"
        /\ snapshot.phase \notin {"Pending", "Running", "Succeeded", "Failed"}
              => mapped = "error"

\* A running pod whose only True condition is not Ready.
C19_Witness ==
    /\ mapped = "creating"
    /\ snapshot.phase = "Running"
    /\ \E i \in 1..Len(snapshot.conditions) :
          snapshot.conditions[i] = [type |-> "ContainersReady", status |-> "True"]

\* C20: the state of the runner CreateRunner, GetRunner and ListRunners
\* return, and the state ExecuteCommandStream checks, is the mapping of the
\* snapshot's phase and conditions, whatever the status annotation says.
C20_StateFromSnapshot ==
    \A op \in Projections :
        runnerStatus[op] \notin {"none", "filtered"} =>
            /\ runnerStatus[op] = MapPodStatusToRunnerStatus(
                                      [phase |-> snapshot.phase,
                                       conditions |-> snapshot.conditions])
            /\ \A a \in StatusAnnotations :
                  runnerStatus[op] = PodToRunnerStatus([snapshot EXCEPT !.statusAnnotation = a])

\* Every operation has projected a ready pod still annotated "creating".
C20_Witness ==
    /\ snapshot.statusAnnotation = "creating"
    /\ \A op \in Projections : runnerStatus[op] = "running"

\* C21: from the accepted DeleteRunner of a RUNNING runner until its pod is
\* removed, GetRunner and ListRunners report the runner STOPPING; a runner
\* under deletion is never reported RUNNING.
C21_DeletingIsStopping ==
    \A id \in RunnerIds :
        (/\ pods[id].exists /\ pods[id].deleting
         /\ pods[id].phase = "Running" /\ pods[id].ready)
            => /\ "running" \notin GetRunner(id)
               /\ GetRunner(id) \subseteq {"stopping", "notfound"}

\* C22: a DeleteRunner call returns nil or ErrRunnerNotFound, also when the
\* pod goes away between its steps: a pod found at the fetch and missing at
\* the finalizer removal or at the deletion still gives nil.
C22_DeleteSwallowsNotFound ==
    \A d \in Deleters :
        delPc[d] = "returned" => delRet[d] \in {"nil", "ErrRunnerNotFound"}

\* C23: once a DeleteRunner call returned nil and the pod is gone from the
\* cluster, GetRunner for the identifier returns ErrRunnerNotFound, until a
\* later CreateRunner brings a pod of that name back.
C23_GoneAfterDelete ==
    observed.deleted => observed.status = "notfound"

C23_Witness ==
    /\ observed.deleted
    /\ observed.status = "notfound"
    /\ \A d \in Deleters : delRet[d] = "nil"

\* C24: GetRunner and DeleteRunner answer ErrRunnerNotFound only for a pod
\* that is not in the cluster; with the pod there, a failed cluster call is
\* ErrKubernetesAPI, never a missing runner.
C24_NotFoundOnlyWhenMissing ==
    \A id \in RunnerIds :
        pods[id].exists =>
            /\ "notfound" \notin GetRunner(id)
            /\ \A r \in DeleteRunnerResults(id) : r.err # "ErrRunnerNotFound"

\* The kind an error is or wraps, "" for an error of no kind.
KindOf(chain) == LET e == chain[Len(chain)] IN IF e \in ErrorKinds THEN e ELSE ""

\* C25: mapServiceError gives every service error, bare or wrapped with
\* context, one status: runner-not-found NOT_FOUND, runner-not-running
\* FAILED_PRECONDITION, invalid-request INVALID_ARGUMENT, resource-conflict
\* ALREADY_EXISTS, cluster-api and command-execution INTERNAL, any other error
\* INTERNAL; never OK.
C25_ErrorToStatus ==
    grpcCode # "none" =>
        /\ grpcCode # "OK"
        /\ grpcCode =
              (CASE KindOf(svcErr) = "ErrRunnerNotFound" -> "NotFound"
                 [] KindOf(svcErr) = "ErrRunnerNotRunning" -> "FailedPrecondition"
                 [] KindOf(svcErr) = "ErrInvalidRequest" -> "InvalidArgument"
                 [] KindOf(svcErr) = "ErrResourceConflict" -> "AlreadyExists"
                 [] KindOf(svcErr) = "ErrKubernetesAPI" -> "Internal"
                 [] KindOf(svcErr) = "ErrCommandExecution" -> "Internal"
                 [] OTHER -> "Internal")

\* A runner-not-found under two layers of context.
C25_Witness ==
    /\ grpcCode = "NotFound"
    /\ Len(svcErr) = 3

\* C26: for n filtered runners and non-negative int32 offset and limit,
\* ListRunners returns total = n and the runners at positions offset up to,
\* not including, min(offset + L, n), L being 50 for limit 0 and limit
\* otherwise; nothing when offset >= n; it never slices out of range.
C26_Pagination ==
    pageOut.returned =>
        LET n == pageIn.n
            offset == pageIn.offset
            L == IF pageIn.limit = 0 THEN DefaultLimit ELSE pageIn.limit
        IN /\ ~pageOut.panic
           /\ pageOut.total = n
           /\ IF offset >= n
              THEN pageOut.hi = pageOut.lo
              ELSE /\ pageOut.lo = offset
                   /\ pageOut.hi = (IF L >= n - offset THEN n ELSE offset + L)

\* C27: an ExecuteCommandStream request with an empty runner identifier, an
\* empty command or a negative timeout is rejected with INVALID_ARGUMENT, no
\* service call made and no frame sent; so is a ListRunners request with a
\* negative limit or offset; a request with timeout 0 is accepted and its
\* timeout becomes 30.
C27_Validation ==
    /\ []((hpc # "start" /\ validateExecuteCommandRequest(req) # "nil")
            => /\ hpc = "done"
               /\ hret = "InvalidArgument"
               /\ frames = <<>>
               /\ ppc = "idle" /\ fetched = "none" /\ ~execInvoked)
    /\ [][(hpc = "start" /\ hpc' # "start")
            => IF req.runnerId = EmptyId \/ req.command = "" \/ req.timeout < 0
               THEN hpc' = "done" /\ hret' = "InvalidArgument" /\ req' = req
               ELSE /\ hpc' # "done"
                    /\ req.timeout = 0 => req'.timeout = 30]_vars
    /\ [](\A limit \in {-1, 0, 1} : \A offset \in {-1, 0, 1} :
            (limit < 0 \/ offset < 0)
                <=> validateListRunnersRequest(limit, offset) = "InvalidArgument")

\* A request rejected for its negative timeout alone.
C27_Witness ==
    /\ hpc = "done" /\ hret = "InvalidArgument"
    /\ req.runnerId # EmptyId /\ req.command # "" /\ req.timeout < 0

\* C28: projecting the pod rendered from a runner that CreateRunner built
\* gives back the runner's identifier, name, environment map and the
\* resource envelope of the small preset (2000 millicores, 2048 MiB, 40 GiB).
C28_RoundTrip ==
    rtPc = "projected"
        => /\ rtProjected.ID = rtRunner.ID
           /\ rtProjected.Name = rtRunner.Name
           /\ rtProjected.Env = rtRunner.Env
           /\ rtProjected.Resources =
                 [CPUMillicores |-> 2000, MemoryMB |-> 2048, StorageGB |-> 40]

\* C29: ExecuteCommand creates a runner only after it fetched an empty list
\* of RUNNING runners, creates at most one, and invokes exec only on a
\* runner it has observed RUNNING; when the provisioned runner was observed
\* STOPPED or ERROR, or did not become RUNNING within 2 minutes, the call
\* returns an error and exec is not invoked.
C29_AutoProvision ==
    /\ auto.created <= 1
    /\ auto.created > 0 => auto.listed = "empty"
    /\ auto.execInvoked => auto.observedRunning
    /\ (auto.pc = "done" /\ auto.observedTerminal)
            => auto.ret = "error" /\ ~auto.execInvoked
    /\ (auto.pc = "done" /\ auto.target = "provisioned"
            /\ ~(auto.runningAt \in 0..WaitSeconds))
            => auto.ret = "error" /\ ~auto.execInvoked

\* C30: GetInactiveRunners(w) returns exactly the identifiers touched (and
\* not removed since) whose last touch lies more than w in the past; an
\* identifier never touched, or removed and not touched again, is not
\* returned and GetLastActiveTime gives the zero instant for it; after
\* UpdateLastActiveTime(id) the entry of id is the time of that call.
C30_Tracker ==
    /\ [](answer.op = "inactive"
            => answer.ids = {id \in TrackedIds :
                                /\ touchedAt[id] # ZeroTime
                                /\ now - touchedAt[id] > answer.arg})
    /\ [](answer.op = "get" => answer.time = touchedAt[answer.arg])
    /\ [][\A id \in TrackedIds :
            TrackerUpdate(id) => GetLastActiveTime(tracker', id) = now]_vars

\* A scan with one entry exactly w old, which stays, and one older, which is
\* returned, while a third identifier is not tracked.
C30_Witness ==
    /\ answer.op = "inactive"
    /\ answer.ids # {}
    /\ \E id \in DOMAIN tracker : now - tracker[id] = answer.arg /\ id \notin answer.ids

\* C31: concurrent calls on one ActivityTracker are equivalent to a
\* sequential order of them: a goroutine in the body of a write is alone in
\* the tracker, and what a returned read or scan gives is what the whole
\* call gives on the map as it was at one moment between its call and its
\* return.
C31_TrackerAtomic ==
    /\ \A g \in Goroutines :
          (calls[g].pc \in {"body", "unlock"} /\ IsWrite(calls[g].op))
              => \A h \in Goroutines \ {g} : calls[h].pc \notin {"body", "unlock"}
    /\ \A g \in Goroutines :
          (calls[g].pc = "done" /\ ~IsWrite(calls[g].op))
              => calls[g].ret \in calls[g].views

\* A scan has returned while two writes that changed the map were made
\* between its call and its return.
C31_Witness ==
    \E g \in Goroutines :
        /\ calls[g].pc = "done"
        /\ calls[g].op = "GetInactiveRunners"
        /\ Cardinality(calls[g].views) >= 3
        /\ \A h \in Goroutines \ {g} : calls[h].pc = "done" /\ IsWrite(calls[h].op)

\* C32: each of the channels stdout, stderr, exit and err is closed at most
\* once and only by its owner (stdout and stderr by the gateway's reader of
\* that stream, exit and err by the producing goroutine), the main loop
\* closes no channel, and nothing is sent on a closed channel.
C32_ChannelOwnership ==
    [][/\ \A fd \in Fds :
            /\ chClosed'[fd] # chClosed[fd]
                  => /\ ~chClosed[fd]
                     /\ rpc[fd] \in {"scan", "send"} /\ rpc'[fd] = "done"
                     /\ hpc' = hpc /\ ppc' = ppc
            /\ (rpc[fd] \in {"scan", "send"} /\ rpc'[fd] \notin {"scan", "send"})
                  => ~chClosed[fd] /\ chClosed'[fd]
            /\ rpc[fd] = "done" => rpc'[fd] = "done"
            /\ ch'[fd] # ch[fd] /\ Len(ch'[fd]) > Len(ch[fd]) => ~chClosed[fd]
       /\ errClosed' # errClosed
            => ~errClosed /\ ppc = "closeErr" /\ ppc' # ppc /\ hpc' = hpc
       /\ exitClosed' # exitClosed
            => ~exitClosed /\ ppc = "closeExit" /\ ppc' # ppc /\ hpc' = hpc
       /\ ppc = "closeErr" /\ ppc' # ppc => ~errClosed /\ errClosed'
       /\ ppc = "closeExit" /\ ppc' # ppc => ~exitClosed /\ exitClosed'
       /\ Len(errCh') > Len(errCh) => ~errClosed
       /\ Len(exitCh') > Len(exitCh) => ~exitClosed]_vars

\* All four channels are closed after both readers sent data.
C32_Witness ==
    /\ \A fd \in Fds : chClosed[fd] /\ produced[fd] # <<>>
    /\ errClosed /\ exitClosed

\* C33: once the gateway's ExecuteCommandStream has been called and has
\* returned, with an exit code or with an error, the stdout and the stderr
\* channel are eventually closed.
C33_GatewayClosesStreams ==
    (execInvoked /\ ppc \in {"result", "closeErr", "closeExit", "done"})
        ~> (\A fd \in Fds : chClosed[fd])

\* C34: a gateway reader that has a chunk to send is never blocked: it can
\* always take its next step, whatever the state of the channel.
C34_WriterNeverBlocks ==
    \A fd \in Fds : rpc[fd] = "send" => ENABLED ReaderSend(fd)

\* C35: the start of an ExecuteCommandStream on a runner sets the tracker
\* entry of that runner to the time of the call, and no other operation
\* creates or refreshes an entry.
C35_TouchOnlyOnExecute ==
    [][/\ \A id \in TrackedIds :
            (lastOp' = Called("ExecuteCommandStream", id, TRUE) /\ lastOp' # lastOp)
                => GetLastActiveTime(tracker', id) = now
       /\ \A id \in TrackedIds :
            (GetLastActiveTime(tracker', id) # ZeroTime
                /\ GetLastActiveTime(tracker', id) # GetLastActiveTime(tracker, id))
                => lastOp' = Called("ExecuteCommandStream", id, TRUE)]_vars

\* C36: DeleteRunner requests the deletion of a pod only when the pod holds
\* no finalizer; a pod whose finalizer was removed stays without it until
\* it is gone; a call whose finalizer removal failed requests no deletion.
C36_FinalizerBeforeDelete ==
    /\ [][(pods'[Target].deleting /\ ~pods[Target].deleting) => ~pods[Target].finalizer]_vars
    /\ [][(pods[Target].exists /\ ~pods[Target].finalizer /\ pods'[Target].exists)
            => ~pods'[Target].finalizer]_vars
    /\ [][\A d \in Deleters :
            (delPc[d] = "fetched" /\ delPc'[d] = "returned")
                => pods' = pods /\ delRet'[d] = "ErrKubernetesAPI"]_vars

\* C37: while no DeleteRunner call is in progress, a runner pod that exists
\* and for which no DeleteRunner call has returned nil carries the
\* finalizer; so a call that returned ErrKubernetesAPI has left the
\* finalizer on the pod.
C37_FinalizerUntilDeleted ==
    (/\ pods[Target].exists
     /\ \A d \in Deleters : delPc[d] \in {"idle", "returned"} /\ delRet[d] # "nil")
        => pods[Target].finalizer

\* C38: the reaper issues DeleteRunner for a runner only while the runner's
\* tracker entry is older than the inactivity threshold, and it removes an
\* entry only if the entry is still older than the threshold: a runner
\* touched between the scan and the delete keeps its pod and its entry.
C38_ReaperRechecks ==
    [][/\ (cpc = "delete" /\ cpc' # "delete")
            => cCur \in GetInactiveRunners(lastActiveTimes, InactiveTimeout)
       /\ \A id \in RunnerIds :
            (cpc \in {"loop", "delete"} /\ id \in DOMAIN lastActiveTimes
                /\ id \notin DOMAIN lastActiveTimes')
                => id \in GetInactiveRunners(lastActiveTimes, InactiveTimeout)]_vars

\* C39: a CreateRunner call that returned an error has left no pod of its
\* own in the namespace: a failed create leaves the pod set as it was.
C39_FailedCreateLeavesNoPod ==
    \A c \in Callers :
        (callPc[c] = "returned" /\ callRet[c].err # "nil") =>
            ~ \E p \in namespace : p.uid = c

\* C40: once the service call of a streaming run has returned, the handler
\* eventually returns, whatever the interleaving and whether or not the
\* stdout and stderr channels are ever closed.
C40_HandlerReturns == ServiceReturned ~> hpc = "done"

\* The service failed before the gateway was called: the handler has returned
\* the mapped error with both data channels still open and never read as
\* closed, the client still connected.
C40_Witness ==
    /\ hpc = "done"
    /\ ppc = "done"
    /\ ~execInvoked
    /\ ~cancelled
    /\ svcRet.err # "nil"
    /\ hret = mapServiceError(svcRet.err)
    /\ \A fd \in Fds : ~chClosed[fd] /\ ~chNil[fd]

============================================================================
